---- MODULE Spec2Model ----
(***************************************************************************)
(* A model of the agent messaging and dispatch layer of the AWS           *)
(* multi-agent assistant: the Message envelope and the BaseAgent registry, *)
(* send / receive / broadcast / query operations (agents/base_agent.py),   *)
(* the handlers of the two resource agents (agents/ec2_agent.py,           *)
(* agents/s3_agent.py), the intent client (agents/fast_perplexity_client)  *)
(* and the coordinator's dispatch (agents/coordinator.py).                 *)
(*                                                                         *)
(* Python text that the code searches by substring or regular expression   *)
(* is a sequence of one-character strings; text that the code only         *)
(* compares for equality (agent names, message kinds, action names, dict   *)
(* keys) is a TLA+ string.  A Python dict is a function from its keys.     *)
(***************************************************************************)
EXTENDS Integers, Sequences, FiniteSets, TLC

VARIABLES
    registry,   \* agents_registry of each agent: its keys, in insertion order
    history,    \* conversation_history of each agent
    queue,      \* message_queue (the inbound log) of each agent
    now,        \* the last reading of the wall clock (datetime.now())
    cloud,      \* how the cloud provider (boto3) answers at present
    apiKey,     \* whether FastPerplexityClient.api_key is set
    ops,        \* number of operations run so far
    last,       \* observation of the last operation: inputs, calls, result
    pre,        \* registry, history and queue as they were before it
    handler,    \* the handle_message of each agent: that of its class in this
                \* repository, or an override forwarding queries to a peer
    stack       \* the send_message calls in progress, the outermost first
                \* (used where a call chain is followed statement by statement)

vars == <<registry, history, queue, now, cloud, apiKey, ops, last, pre, handler, stack>>

(***************************************************************************)
(* Bounds of the model.                                                    *)
(***************************************************************************)
MaxOps == 2
MaxClock == 1
\* requests to the coordinator in a behaviour
MaxRequests == 2

(***************************************************************************)
(* Text.                                                                   *)
(***************************************************************************)
UpperCase == <<"A","B","C","D","E","F","G","H","I","J","K","L","M","N","O","P","Q","R","S","T","U","V","W","X","Y","Z">>
LowerCase == <<"a","b","c","d","e","f","g","h","i","j","k","l","m","n","o","p","q","r","s","t","u","v","w","x","y","z">>

\* one character of str.lower()
LowerChar(c) ==
    IF \E i \in 1..Len(UpperCase) : UpperCase[i] = c
    THEN LowerCase[CHOOSE i \in 1..Len(UpperCase) : UpperCase[i] = c]
    ELSE c

\* str.lower()
Lower(s) == [i \in 1..Len(s) |-> LowerChar(s[i])]

\* Python's  pat in s  on strings
Contains(s, pat) ==
    \E i \in 1..(Len(s) - Len(pat) + 1) : SubSeq(s, i, i + Len(pat) - 1) = pat

\* the words the handlers and the fallback classifier look for
words ==
    [bucket |-> <<"b","u","c","k","e","t">>,
     count |-> <<"c","o","u","n","t">>,
     storage |-> <<"s","t","o","r","a","g","e">>,
     size |-> <<"s","i","z","e">>,
     instance |-> <<"i","n","s","t","a","n","c","e">>,
     running |-> <<"r","u","n","n","i","n","g">>,
     ec2 |-> <<"e","c","2">>,
     create |-> <<"c","r","e","a","t","e">>,
     launch |-> <<"l","a","u","n","c","h">>,
     list |-> <<"l","i","s","t">>,
     show |-> <<"s","h","o","w">>,
     stop |-> <<"s","t","o","p">>,
     terminate |-> <<"t","e","r","m","i","n","a","t","e">>,
     delete |-> <<"d","e","l","e","t","e">>,
     s3 |-> <<"s","3">>,
     help |-> <<"h","e","l","p">>,
     object |-> <<"o","b","j","e","c","t">>,
     file |-> <<"f","i","l","e">>]

\* the enrichment queries of the coordinator and the queries of /status
queries ==
    [buckets |-> <<"H","o","w"," ","m","a","n","y"," ","b","u","c","k","e","t","s"," ","d","o","e","s"," ","u","s","e","r"," ","h","a","v","e","?">>,
     instances |-> <<"H","o","w"," ","m","a","n","y"," ","i","n","s","t","a","n","c","e","s"," ","d","o","e","s"," ","u","s","e","r"," ","h","a","v","e","?">>,
     running |-> <<"H","o","w"," ","m","a","n","y"," ","r","u","n","n","i","n","g"," ","i","n","s","t","a","n","c","e","s","?">>,
     nbuckets |-> <<"H","o","w"," ","m","a","n","y"," ","b","u","c","k","e","t","s","?">>,
     bucket_count |-> <<"b","u","c","k","e","t"," ","c","o","u","n","t">>,
     instance_count |-> <<"i","n","s","t","a","n","c","e"," ","c","o","u","n","t">>]

\* what clients send and what users type (the commands of the help text)
texts ==
    [ping |-> <<"p","i","n","g">>,
     create_instance |-> <<"c","r","e","a","t","e"," ","e","c","2"," ","i","n","s","t","a","n","c","e"," ","t","2",".","s","m","a","l","l">>,
     create_bucket |-> <<"c","r","e","a","t","e"," ","s","3"," ","b","u","c","k","e","t"," ","m","y","-","b","u","c","k","e","t">>,
     stop |-> <<"s","t","o","p"," ","i","n","s","t","a","n","c","e"," ","i","-","1","2","3","4","5","6","7","8","9","0","a","b","c","d","e","f","0">>,
     hello |-> <<"h","e","l","l","o">>,
     list |-> <<"l","i","s","t"," ","i","n","s","t","a","n","c","e","s">>,
     delete_bucket |-> <<"d","e","l","e","t","e"," ","b","u","c","k","e","t"," ","m","y","-","b","u","c","k","e","t">>,
     stop_no_id |-> <<"s","t","o","p"," ","i","n","s","t","a","n","c","e">>,
     delete_no_name |-> <<"d","e","l","e","t","e"," ","b","u","c","k","e","t">>,
     create_no_name |-> <<"c","r","e","a","t","e"," ","s","3"," ","b","u","c","k","e","t">>,
     terminate_unknown |-> <<"t","e","r","m","i","n","a","t","e"," ","i","n","s","t","a","n","c","e"," ","r","s","c","-","u","n","k","n","o","w","n">>,
     list_objects |-> <<"l","i","s","t"," ","o","b","j","e","c","t","s">>]

(***************************************************************************)
(* Python values.                                                          *)
(***************************************************************************)
None == [NoneType |-> TRUE]
IsNone(v) == v = None

Has(d, k) == k \in DOMAIN d
Get(d, k, default) == IF Has(d, k) THEN d[k] ELSE default
Put(d, k, v) == [x \in (DOMAIN d) \cup {k} |-> IF x = k THEN v ELSE d[x]]

\* content of a message: a dict, or something that is no dict (a string)
Dict(d) == [isDict |-> TRUE, d |-> d]
Str(s) == [isDict |-> FALSE, s |-> s]

\* how a call ends: it returns a value, or an exception leaves it
Ret(v) == [raised |-> FALSE, value |-> v]
Raise(e) == [raised |-> TRUE, value |-> [exception |-> e]]

Range(s) == {s[i] : i \in 1..Len(s)}

(***************************************************************************)
(* Agents.                                                                 *)
(***************************************************************************)
Coordinator == "CoordinatorAgent"
EC2 == "EC2Agent"
S3 == "S3Agent"
\* a plain BaseAgent built by a client of the library; nobody registers it
\* at construction
Aux == "AuxAgent"
Agents == {Coordinator, EC2, S3, Aux}
\* a name no agent bears
Nobody == "Nobody"

MsgTypes == {"request", "response", "notification", "query"}

\* CoordinatorAgent._setup_a2a_network: who registers whom, in which order
InitialRegistry ==
    [a \in Agents |->
        CASE a = Coordinator -> <<EC2, S3>>
          [] a = EC2 -> <<Coordinator, S3>>
          [] a = S3 -> <<Coordinator, EC2>>
          [] OTHER -> <<>>]

(***************************************************************************)
(* The cloud provider, as the resource agents see it through boto3.  Each  *)
(* field says how one provider call answers at present.                    *)
(***************************************************************************)
bucket_a == [name |-> "bucket-a", creation_date |-> "2024-01-01"]
inst_1 == [instance_id |-> "i-1", instance_type |-> "t2.micro", state |-> "running", launch_time |-> "2024-01-01"]
inst_2 == [instance_id |-> "i-2", instance_type |-> "t2.small", state |-> "stopped", launch_time |-> "2024-01-02"]

us_east_1 == <<"u","s","-","e","a","s","t","-","1">>
us_east_2 == <<"u","s","-","e","a","s","t","-","2">>
us_west_2 == <<"u","s","-","w","e","s","t","-","2">>
\* the instance the account holds, and an id that is no instance
id_known == <<"i","-","1","2","3","4","5","6","7","8","9","0","a","b","c","d","e","f","0">>
id_other == <<"i","-","0","a","a","a","a","a","a","a","a">>

\* every call succeeds; one bucket, two instances, id_known in the second
\* of three regions
CloudUp ==
    [s3_list_ok |-> TRUE, s3_buckets |-> <<bucket_a>>, s3_head_ok |-> TRUE,
     s3_create_ok |-> TRUE, s3_delete_ok |-> TRUE, s3_objects_ok |-> TRUE,
     s3_region |-> us_east_1,
     ec2_list_ok |-> TRUE, ec2_instances |-> <<inst_1, inst_2>>,
     ec2_describe |-> "found", ec2_images_ok |-> TRUE, ec2_create_ok |-> TRUE,
     regions_ok |-> TRUE, regions |-> <<us_east_1, us_east_2, us_west_2>>,
     probe_raises |-> {us_east_1}, located |-> [id |-> id_known, regions |-> {us_east_2}],
     ec2_stop_ok |-> TRUE, ec2_terminate_ok |-> TRUE]
\* every call succeeds; the account holds nothing
CloudEmpty ==
    [s3_list_ok |-> TRUE, s3_buckets |-> <<>>, s3_head_ok |-> FALSE,
     s3_create_ok |-> TRUE, s3_delete_ok |-> TRUE, s3_objects_ok |-> TRUE,
     s3_region |-> us_west_2,
     ec2_list_ok |-> TRUE, ec2_instances |-> <<>>,
     ec2_describe |-> "empty", ec2_images_ok |-> FALSE, ec2_create_ok |-> TRUE,
     regions_ok |-> TRUE, regions |-> <<us_east_1, us_east_2, us_west_2>>,
     probe_raises |-> {}, located |-> [id |-> <<>>, regions |-> {}],
     ec2_stop_ok |-> TRUE, ec2_terminate_ok |-> TRUE]
\* every call raises
CloudDown ==
    [s3_list_ok |-> FALSE, s3_buckets |-> <<>>, s3_head_ok |-> FALSE,
     s3_create_ok |-> FALSE, s3_delete_ok |-> FALSE, s3_objects_ok |-> FALSE,
     s3_region |-> us_east_1,
     ec2_list_ok |-> FALSE, ec2_instances |-> <<>>,
     ec2_describe |-> "error", ec2_images_ok |-> FALSE, ec2_create_ok |-> FALSE,
     regions_ok |-> FALSE, regions |-> <<>>,
     probe_raises |-> {}, located |-> [id |-> <<>>, regions |-> {}],
     ec2_stop_ok |-> FALSE, ec2_terminate_ok |-> FALSE]
\* every lookup succeeds and every change is refused: the account of
\* CloudUp seen with read-only credentials
CloudReadOnly ==
    [CloudUp EXCEPT !.s3_create_ok = FALSE, !.s3_delete_ok = FALSE,
                    !.ec2_create_ok = FALSE, !.ec2_stop_ok = FALSE,
                    !.ec2_terminate_ok = FALSE]
Clouds == {CloudUp, CloudEmpty, CloudDown, CloudReadOnly}

ProviderError == "provider error"

\* S3Agent.list_buckets
S3ListBuckets(c) ==
    IF c.s3_list_ok
    THEN [success |-> TRUE, buckets |-> c.s3_buckets]
    ELSE [error |-> ProviderError]

\* EC2Agent.list_instances
EC2ListInstances(c) ==
    IF c.ec2_list_ok
    THEN [success |-> TRUE, instances |-> c.ec2_instances]
    ELSE [error |-> ProviderError]

\* S3Agent._bucket_exists
S3BucketExists(c, bucket_name) ==
    [exists |-> c.s3_head_ok, bucket_name |-> bucket_name]

\* EC2Agent._get_instance_info
EC2GetInstanceInfo(c, instance_id) ==
    CASE c.ec2_describe = "found" ->
            [success |-> TRUE, instance_id |-> instance_id, state |-> inst_1.state,
             type |-> inst_1.instance_type, launch_time |-> inst_1.launch_time]
      [] c.ec2_describe = "error" -> [error |-> ProviderError]
      [] OTHER -> [error |-> "Instance not found"]

(***************************************************************************)
(* Messages and handlers.                                                  *)
(***************************************************************************)
\* Message.__init__ and to_dict: t1 is the clock reading of the timestamp,
\* t2 the reading formatted into the id
MessageId(sender, receiver, t2) == sender \o "-" \o receiver \o "-" \o ToString(t2)

NewMessage(sender, receiver, content, msg_type, t1, t2) ==
    [id |-> MessageId(sender, receiver, t2), sender |-> sender, receiver |-> receiver,
     content |-> content, type |-> msg_type, timestamp |-> t1]

\* BaseAgent.handle_message
Ack == [status |-> "received", message |-> "Message received but not processed"]
BaseHandle(m) == Ret(Ack)

\* S3Agent.handle_message; content.get raises on a content that is no dict.
\* An absent "action" reads as None, which equals no action name ("" here).
S3Handle(m, c) ==
    IF m.type = "query" THEN
        IF ~m.content.isDict THEN Raise("AttributeError")
        ELSE LET query == Lower(Get(m.content.d, "query", <<>>)) IN
             IF Contains(query, words.bucket) /\ Contains(query, words.count)
             THEN LET buckets == S3ListBuckets(c) IN
                  Ret([count |-> Len(Get(buckets, "buckets", <<>>)), buckets |-> buckets])
             ELSE IF Contains(query, words.storage) \/ Contains(query, words.size)
             THEN Ret([message |-> "Storage size calculation requires CloudWatch metrics"])
             ELSE BaseHandle(m)
    ELSE IF m.type = "request" THEN
        IF ~m.content.isDict THEN Raise("AttributeError")
        ELSE LET action == Get(m.content.d, "action", "") IN
             IF action = "list_buckets" THEN Ret(S3ListBuckets(c))
             ELSE IF action = "bucket_exists"
             THEN Ret(S3BucketExists(c, Get(m.content.d, "bucket_name", None)))
             ELSE BaseHandle(m)
    ELSE BaseHandle(m)

\* EC2Agent.handle_message
EC2Handle(m, c) ==
    IF m.type = "query" THEN
        IF ~m.content.isDict THEN Raise("AttributeError")
        ELSE LET query == Lower(Get(m.content.d, "query", <<>>)) IN
             IF Contains(query, words.instance) /\ Contains(query, words.count)
             THEN LET instances == EC2ListInstances(c) IN
                  Ret([count |-> Len(Get(instances, "instances", <<>>)), instances |-> instances])
             ELSE IF Contains(query, words.running)
             THEN LET instances == Get(EC2ListInstances(c), "instances", <<>>)
                      running == SelectSeq(instances, LAMBDA i : i.state = "running") IN
                  Ret([running_count |-> Len(running), instances |-> running])
             ELSE BaseHandle(m)
    ELSE IF m.type = "request" THEN
        IF ~m.content.isDict THEN Raise("AttributeError")
        ELSE LET action == Get(m.content.d, "action", "") IN
             IF action = "list_instances" THEN Ret(EC2ListInstances(c))
             ELSE IF action = "get_instance_info"
             THEN Ret(EC2GetInstanceInfo(c, Get(m.content.d, "instance_id", None)))
             ELSE BaseHandle(m)
    ELSE BaseHandle(m)

\* the handle_message of the receiver's class
HandleMessage(self, m, c) ==
    CASE self = S3 -> S3Handle(m, c)
      [] self = EC2 -> EC2Handle(m, c)
      [] OTHER -> BaseHandle(m)

(***************************************************************************)
(* send, receive, broadcast, query.  A world w carries what a call chain   *)
(* changes: the histories, the inbound logs, the clock, and the handler    *)
(* invocations it made (handled, an observation).  d holds how far the     *)
(* clock moves before each of its readings.                                *)
(***************************************************************************)
World == [history |-> history, queue |-> queue, now |-> now, handled |-> <<>>]

\* receive_message without the return of the handler's result
ReceiveMessageDropsResult(w, self, m, c) ==
    LET w1 == [w EXCEPT !.queue[self] = Append(@, m),
                        !.history[self] = Append(@, m),
                        !.handled = Append(@, [agent |-> self, id |-> m.id,
                                               content |-> m.content, type |-> m.type])]
        out == HandleMessage(self, m, c)
    IN [w |-> w1, out |-> IF out.raised THEN out ELSE Ret(None)]

\* a delivery the receiver handles without logging the message
ReceiveMessageUnlogged(w, self, m, c) ==
    LET w1 == [w EXCEPT !.history[self] = Append(@, m),
                        !.handled = Append(@, [agent |-> self, id |-> m.id,
                                               content |-> m.content, type |-> m.type])]
    IN [w |-> w1, out |-> HandleMessage(self, m, c)]


\* a receiver that acknowledges each message with a send of its own to the
\* sender before handling it
ReceiveMessageReplies(w, self, m, c) ==
    LET ack == NewMessage(self, m.sender, Str(texts.ping), "response", w.now, w.now)
        w1 == [w EXCEPT !.queue[self] = Append(@, m),
                        !.history[self] = Append(Append(@, m), ack),
                        !.queue[m.sender] = Append(@, ack),
                        !.history[m.sender] = Append(@, ack),
                        !.handled = Append(@, [agent |-> self, id |-> m.id,
                                               content |-> m.content, type |-> m.type])]
    IN [w |-> w1, out |-> HandleMessage(self, m, c)]


\* BaseAgent.receive_message
ReceiveMessage(w, self, m, c) ==
    LET w1 == [w EXCEPT !.queue[self] = Append(@, m),
                        !.history[self] = Append(@, m),
                        !.handled = Append(@, [agent |-> self, id |-> m.id,
                                               content |-> m.content, type |-> m.type])]
    IN [w |-> w1, out |-> HandleMessage(self, m, c)]

\* a lookup by agent name in place of a lookup in the sender's own registry
UnregisteredAnywhere(self, receiver) == receiver \notin Agents

\* receiver not in self.agents_registry
Unregistered(self, receiver) == receiver \notin Range(registry[self])

\* a sender that keeps only its latest record
SendMessageKeepsLatest(w, self, receiver, content, msg_type, c, d) ==
    IF Unregistered(self, receiver) THEN [w |-> w, out |-> Ret(None)]
    ELSE LET t1 == w.now + d[1]
             t2 == t1 + d[2]
             m == NewMessage(self, receiver, content, msg_type, t1, t2)
             w1 == [w EXCEPT !.now = t2, !.history[self] = <<m>>]
         IN ReceiveMessage(w1, receiver, m, c)


\* BaseAgent.send_message
SendMessage(w, self, receiver, content, msg_type, c, d) ==
    IF Unregistered(self, receiver) THEN [w |-> w, out |-> Ret(None)]
    ELSE LET t1 == w.now + d[1]
             t2 == t1 + d[2]
             m == NewMessage(self, receiver, content, msg_type, t1, t2)
             w1 == [w EXCEPT !.now = t2, !.history[self] = Append(@, m)]
         IN ReceiveMessage(w1, receiver, m, c)

\* BaseAgent.query_agent
QueryAgent(w, self, agent_name, query, c, d) ==
    SendMessage(w, self, agent_name, Dict([query |-> query]), "query", c, d)

\* BaseAgent.broadcast from the k-th key of the registry on, responses so
\* far in acc; an exception of a send leaves the loop and the call
RECURSIVE BroadcastFrom(_, _, _, _, _, _, _, _)
BroadcastFrom(w, self, k, acc, content, msg_type, c, d) ==
    IF k > Len(registry[self]) THEN [w |-> w, out |-> Ret(acc)]
    ELSE LET agent_name == registry[self][k]
             r == SendMessage(w, self, agent_name, content, msg_type, c,
                              <<d[2 * k - 1], d[2 * k]>>)
         IN IF r.out.raised THEN r
            ELSE BroadcastFrom(r.w, self, k + 1, Put(acc, agent_name, r.out.value),
                               content, msg_type, c, d)

\* a broadcast whose loop ends one key early
BroadcastSkipsLast(w, self, content, msg_type, c, d) ==
    LET r == BroadcastFrom(w, self, 1, <<>>, content, msg_type, c, d) IN
    IF r.out.raised \/ Len(registry[self]) = 0 THEN r
    ELSE LET keep == {registry[self][k] : k \in 1..(Len(registry[self]) - 1)} IN
         [w |-> r.w, out |-> Ret([n \in keep |-> r.out.value[n]])]

Broadcast(w, self, content, msg_type, c, d) ==
    BroadcastFrom(w, self, 1, <<>>, content, msg_type, c, d)

(***************************************************************************)
(* The operations of the messaging layer, as a client of the library       *)
(* calls them.                                                             *)
(***************************************************************************)
\* the clock may stand still or move on before each of n readings
Ticks(n) == [1..n -> 0..1]

Snapshot == [registry |-> registry, history |-> history, queue |-> queue, now |-> now]

\* what a call chain leaves in the agents
Commit(w) ==
    /\ w.now <= MaxClock
    /\ history' = w.history
    /\ queue' = w.queue
    /\ now' = w.now

\* a registration that also registers self with the agent
RegisterAgentBothWays(self, agent) ==
    /\ ops < MaxOps
    /\ registry' = [a \in Agents |->
                       IF a = self /\ agent \notin Range(registry[a])
                       THEN Append(registry[a], agent)
                       ELSE IF a = agent /\ self \notin Range(registry[a])
                       THEN Append(registry[a], self)
                       ELSE registry[a]]
    /\ last' = [op |-> "register", self |-> self, agent |-> agent]
    /\ pre' = Snapshot
    /\ ops' = ops + 1
    /\ UNCHANGED <<history, queue, now, cloud, apiKey, handler, stack>>


\* BaseAgent.register_agent: self.agents_registry[agent.name] = agent
RegisterAgent(self, agent) ==
    /\ ops < MaxOps
    /\ registry' = [registry EXCEPT
                       ![self] = IF agent \in Range(@) THEN @ ELSE Append(@, agent)]
    /\ last' = [op |-> "register", self |-> self, agent |-> agent]
    /\ pre' = Snapshot
    /\ ops' = ops + 1
    /\ UNCHANGED <<handler, stack>>
    /\ UNCHANGED <<history, queue, now, cloud, apiKey>>

RegisterInputs ==
    {<<Aux, Coordinator>>, <<Coordinator, Aux>>, <<Coordinator, Coordinator>>}

\* a call of send_message
Send(self, receiver, content, msg_type) ==
    /\ ops < MaxOps
    /\ \E d \in Ticks(2) :
          LET r == SendMessage(World, self, receiver, content, msg_type, cloud, d) IN
          /\ Commit(r.w)
          /\ last' = [op |-> "send", self |-> self, receiver |-> receiver,
                      content |-> content, type |-> msg_type, cloud |-> cloud,
                      out |-> r.out, handled |-> r.w.handled]
    /\ pre' = Snapshot
    /\ ops' = ops + 1
    /\ UNCHANGED <<handler, stack>>
    /\ UNCHANGED <<registry, cloud, apiKey>>

SendInputs ==
    {<<Coordinator, S3, Dict([query |-> queries.bucket_count]), "query">>,
     <<Coordinator, EC2, Dict([action |-> "list_instances"]), "request">>,
     <<EC2, S3, Str(texts.ping), "request">>,
     <<S3, Nobody, Dict([action |-> "list_buckets"]), "request">>,
     <<Aux, Coordinator, Str(texts.ping), "response">>,
     <<Coordinator, Coordinator, Str(texts.ping), "notification">>}

\* a call of query_agent
Query(self, agent_name, query) ==
    /\ ops < MaxOps
    /\ \E d \in Ticks(2) :
          LET r == QueryAgent(World, self, agent_name, query, cloud, d) IN
          /\ Commit(r.w)
          /\ last' = [op |-> "query", self |-> self, receiver |-> agent_name,
                      content |-> Dict([query |-> query]), type |-> "query",
                      cloud |-> cloud, out |-> r.out, handled |-> r.w.handled]
    /\ pre' = Snapshot
    /\ ops' = ops + 1
    /\ UNCHANGED <<handler, stack>>
    /\ UNCHANGED <<registry, cloud, apiKey>>

QueryInputs ==
    {<<Coordinator, S3, queries.buckets>>, <<S3, EC2, queries.instance_count>>}

\* a call of broadcast
DoBroadcast(self, content, msg_type) ==
    /\ ops < MaxOps
    /\ \E d \in Ticks(2 * Len(registry[self])) :
          LET r == Broadcast(World, self, content, msg_type, cloud, d) IN
          /\ Commit(r.w)
          /\ last' = [op |-> "broadcast", self |-> self, content |-> content,
                      type |-> msg_type, cloud |-> cloud, out |-> r.out,
                      handled |-> r.w.handled]
    /\ pre' = Snapshot
    /\ ops' = ops + 1
    /\ UNCHANGED <<handler, stack>>
    /\ UNCHANGED <<registry, cloud, apiKey>>

BroadcastInputs ==
    {<<Coordinator, Str(texts.ping), "notification">>,
     <<Coordinator, Str(texts.ping), "query">>,
     <<Aux, Dict([action |-> "list_buckets"]), "request">>}

\* the provider's answers change under the program
ProviderChanges ==
    /\ \E c \in Clouds \ {cloud} : cloud' = c
    /\ UNCHANGED <<registry, history, queue, now, apiKey, ops, last, pre, handler, stack>>

\* the state after CoordinatorAgent.__init__ (and BaseAgent.__init__ of Aux)
InitAgents ==
    /\ registry = InitialRegistry
    /\ history = [a \in Agents |-> <<>>]
    /\ queue = [a \in Agents |-> <<>>]
    /\ now = 0
    /\ ops = 0
    /\ handler = [a \in Agents |-> "class"]
    /\ stack = <<>>
    /\ last = [op |-> "init"]
    /\ pre = Snapshot

InitA2A ==
    /\ InitAgents
    /\ cloud \in Clouds
    /\ apiKey = FALSE

NextA2A ==
    \/ \E i \in RegisterInputs : RegisterAgent(i[1], i[2])
    \/ \E i \in SendInputs : Send(i[1], i[2], i[3], i[4])
    \/ \E i \in QueryInputs : Query(i[1], i[2], i[3])
    \/ \E i \in BroadcastInputs : DoBroadcast(i[1], i[2], i[3])

SpecA2A == InitA2A /\ [][NextA2A]_vars

(***************************************************************************)
(* Properties of the messaging layer (under SpecA2A).                      *)
(***************************************************************************)
Last(s) == s[Len(s)]
IsSend == last.op \in {"send", "query"}
RoutingFailed == IsSend /\ last.receiver \notin Range(pre.registry[last.self])
Delivered == IsSend /\ last.receiver \in Range(pre.registry[last.self])

\* C1: a send to a receiver that is not a key of the sender's registry
\* returns None without raising, invokes no handler, and leaves every
\* agent's conversation history and inbound log as they were.
C1_RoutingFailureIsSilent ==
    RoutingFailed =>
        /\ last.out = Ret(None)
        /\ last.handled = <<>>
        /\ history = pre.history
        /\ queue = pre.queue

\* a routing failure of an agent that holds a registry and of a system that
\* already exchanged messages
C1_Witness ==
    /\ RoutingFailed
    /\ last.self = Aux
    /\ last.receiver = Coordinator
    /\ \E a \in Agents : Len(history[a]) > 0

\* C2: a send to a registered receiver other than the sender appends one
\* record to the sender's history and one to the receiver's history and
\* inbound log, all three with the same message id, changes no other agent,
\* and ends as the receiver's handle_message ends on that message.
C2_DeliveryGrowsBothByOne ==
    (Delivered /\ last.receiver # last.self) =>
        LET s == last.self
            r == last.receiver
        IN /\ Len(history[s]) = Len(pre.history[s]) + 1
           /\ Len(history[r]) = Len(pre.history[r]) + 1
           /\ Len(queue[r]) = Len(pre.queue[r]) + 1
           /\ SubSeq(history[s], 1, Len(pre.history[s])) = pre.history[s]
           /\ SubSeq(history[r], 1, Len(pre.history[r])) = pre.history[r]
           /\ SubSeq(queue[r], 1, Len(pre.queue[r])) = pre.queue[r]
           /\ Last(history[s]) = Last(queue[r])
           /\ Last(history[r]) = Last(queue[r])
           /\ Last(queue[r]).id = MessageId(s, r, now)
           /\ queue[s] = pre.queue[s]
           /\ \A a \in Agents \ {s, r} :
                 history[a] = pre.history[a] /\ queue[a] = pre.queue[a]
           /\ Len(last.handled) = 1
           /\ last.handled[1].agent = r
           /\ last.out = HandleMessage(r, Last(queue[r]), last.cloud)

\* a delivered query answered with a count by the receiver's handler
C2_Witness ==
    /\ Delivered
    /\ last.self = Coordinator
    /\ last.receiver = S3
    /\ ~last.out.raised
    /\ Has(last.out.value, "count")
    /\ last.out.value.count = 1
    /\ Len(pre.history[Coordinator]) > 0

\* C3: when the handler of one peer raises during a broadcast, the
\* broadcast still delivers to every registered peer once and returns a
\* mapping with one entry per peer, the failed peer's entry being None.
C3_BroadcastSurvivesFailure ==
    last.op = "broadcast" =>
        /\ ~last.out.raised
        /\ Len(last.handled) = Len(pre.registry[last.self])
        /\ DOMAIN last.out.value = Range(pre.registry[last.self])
        /\ \A k \in 1..Len(last.handled) :
              HandleMessage(last.handled[k].agent, last.handled[k], last.cloud).raised
                  => last.out.value[last.handled[k].agent] = None

\* C4: a broadcast in which every handler returns invokes the handler of
\* each registered peer once, in registry order, with the same content and
\* kind, and returns a mapping from exactly the registered names to the
\* handlers' results; the history of a broadcaster that is not registered
\* with itself grows by one record per peer.
C4_BroadcastReachesAll ==
    (last.op = "broadcast" /\ ~last.out.raised) =>
        LET s == last.self
            reg == pre.registry[s]
            n == Len(reg)
        IN /\ DOMAIN last.out.value = Range(reg)
           /\ Cardinality(DOMAIN last.out.value) = n
           /\ Len(last.handled) = n
           /\ \A k \in 1..n :
                 /\ last.handled[k].agent = reg[k]
                 /\ last.handled[k].content = last.content
                 /\ last.handled[k].type = last.type
                 /\ Last(queue[reg[k]]).id = last.handled[k].id
                 /\ Last(queue[reg[k]]).sender = s
                 /\ Len(queue[reg[k]]) = Len(pre.queue[reg[k]]) + 1
                 /\ Ret(last.out.value[reg[k]]) =
                        HandleMessage(reg[k], Last(queue[reg[k]]), last.cloud)
           /\ (s \notin Range(reg) => Len(history[s]) = Len(pre.history[s]) + n)

\* a broadcast of the coordinator to three peers, all of which answered
C4_Witness ==
    /\ last.op = "broadcast"
    /\ ~last.out.raised
    /\ last.self = Coordinator
    /\ pre.registry[Coordinator] = <<EC2, S3, Aux>>
    /\ Len(history[Coordinator]) = 3

\* every message constructed so far, each once: what the inbound logs hold
AllMessages == UNION {{<<a, i>> : i \in 1..Len(queue[a])} : a \in Agents}

\* C5: no two constructed messages have the same id, also when the clock
\* returns the same value for two sends between the same two agents.
C5_MessageIdsUnique ==
    \A x \in AllMessages : \A y \in AllMessages :
        x # y => queue[x[1]][x[2]].id # queue[y[1]][y[2]].id

(***************************************************************************)
(* The fallback classifier and the pattern extractors.                     *)
(***************************************************************************)
\* None or the empty string: the code tests both by truthiness only
NoStr == <<>>

Min(S) == CHOOSE x \in S : \A y \in S : x <= y
Max(S) == CHOOSE x \in S : \A y \in S : x >= y

\* s has pat at position p
At(s, p, pat) == p >= 1 /\ p + Len(pat) - 1 <= Len(s) /\ SubSeq(s, p, p + Len(pat) - 1) = pat

\* how many characters of s from position p on lie in set, at most cap
RunLen(s, p, set, cap) ==
    Max({n \in 0..cap : \A i \in 0..(n - 1) : p + i <= Len(s) /\ s[p + i] \in set})

greetings == <<<<"h","i">>, <<"h","e","l","l","o">>, <<"h","e","y">>, <<"h","o","w"," ","a","r","e"," ","y","o","u">>, <<"h","o","w"," ","a","r","e"," ","u">>, <<"w","h","a","t","s"," ","u","p">>, <<"w","h","a","t","'","s"," ","u","p">>>>

Intent(service, action) == [service |-> service, action |-> action, parameters |-> <<>>]

\* the classifier without its last return: a text no rule matches falls off
\* the end of the function
FastFallbackNoDefault(user_input) ==
    LET text == Lower(user_input)
        has(k) == Contains(text, k)
    IN IF (has(words.ec2) \/ has(words.instance)) /\ (has(words.create) \/ has(words.launch))
       THEN Intent("ec2", "create_instance")
       ELSE IF (has(words.ec2) \/ has(words.instance)) /\ (has(words.list) \/ has(words.show))
       THEN Intent("ec2", "list_instances")
       ELSE IF (has(words.ec2) \/ has(words.instance)) /\ has(words.stop)
       THEN Intent("ec2", "stop_instance")
       ELSE IF (has(words.ec2) \/ has(words.instance)) /\ (has(words.terminate) \/ has(words.delete))
       THEN Intent("ec2", "terminate_instance")
       ELSE IF (has(words.s3) \/ has(words.bucket)) /\ has(words.create)
       THEN Intent("s3", "create_bucket")
       ELSE IF (has(words.s3) \/ has(words.bucket)) /\ has(words.list)
       THEN Intent("s3", "list_buckets")
       ELSE IF (has(words.s3) \/ has(words.bucket)) /\ has(words.delete)
       THEN Intent("s3", "delete_bucket")
       ELSE IF \E i \in 1..Len(greetings) : has(greetings[i])
       THEN Intent("unknown", "greeting")
       ELSE IF has(words.help)
       THEN Intent("unknown", "help")
       ELSE None

\* FastPerplexityClient._fast_fallback
FastFallback(user_input) ==
    LET text == Lower(user_input)
        has(k) == Contains(text, k)
    IN IF (has(words.ec2) \/ has(words.instance)) /\ (has(words.create) \/ has(words.launch))
       THEN Intent("ec2", "create_instance")
       ELSE IF (has(words.ec2) \/ has(words.instance)) /\ (has(words.list) \/ has(words.show))
       THEN Intent("ec2", "list_instances")
       ELSE IF (has(words.ec2) \/ has(words.instance)) /\ has(words.stop)
       THEN Intent("ec2", "stop_instance")
       ELSE IF (has(words.ec2) \/ has(words.instance)) /\ (has(words.terminate) \/ has(words.delete))
       THEN Intent("ec2", "terminate_instance")
       ELSE IF (has(words.s3) \/ has(words.bucket)) /\ has(words.create)
       THEN Intent("s3", "create_bucket")
       ELSE IF (has(words.s3) \/ has(words.bucket)) /\ has(words.list)
       THEN Intent("s3", "list_buckets")
       ELSE IF (has(words.s3) \/ has(words.bucket)) /\ has(words.delete)
       THEN Intent("s3", "delete_bucket")
       ELSE IF \E i \in 1..Len(greetings) : has(greetings[i])
       THEN Intent("unknown", "greeting")
       ELSE IF has(words.help)
       THEN Intent("unknown", "help")
       ELSE Intent("unknown", "help")

Digits == {"0","1","2","3","4","5","6","7","8","9"}
Letters == Range(LowerCase)
HexChars == {"a","b","c","d","e","f"} \cup Digits
AlNum == Letters \cup Digits
NameChars == AlNum \cup {"-"}
WhiteSpace == {" ", "\t", "\n"}

\* CoordinatorAgent._extract_instance_id: re.search(r'i-[a-f0-9]{8,17}', text)
ExtractInstanceId(text) ==
    LET starts == {p \in 1..Len(text) :
                      At(text, p, <<"i","-">>) /\ RunLen(text, p + 2, HexChars, 17) >= 8}
    IN IF starts = {} THEN NoStr
       ELSE LET p == Min(starts) IN
            SubSeq(text, p, p + 1 + RunLen(text, p + 2, HexChars, 17))

\* the group ([a-z0-9][a-z0-9\-]{1,61}[a-z0-9]) matched greedily at position
\* g of s: the position of its last character, 0 if it does not match
NameEnd(s, g) ==
    IF g > Len(s) \/ s[g] \notin AlNum THEN 0
    ELSE LET r == RunLen(s, g + 1, NameChars, 62)
             ends == {e \in (g + 2)..(g + r) : s[e] \in AlNum}
         IN IF ends = {} THEN 0 ELSE Max(ends)

\* kw\s+(name) matched at position p of s: the name, NoStr if no match
NameAfter(s, p, kw) ==
    IF ~At(s, p, kw) THEN NoStr
    ELSE LET q == p + Len(kw)
             w == RunLen(s, q, WhiteSpace, Len(s))
         IN IF w = 0 \/ NameEnd(s, q + w) = 0 THEN NoStr
            ELSE SubSeq(s, q + w, NameEnd(s, q + w))

\* re.search of kw\s+(name) in s: group 1 of the leftmost match
SearchName(s, kws) ==
    LET hit(p) == \E i \in 1..Len(kws) : NameAfter(s, p, kws[i]) # NoStr
        starts == {p \in 1..Len(s) : hit(p)}
    IN IF starts = {} THEN NoStr
       ELSE LET p == Min(starts)
                i == Min({j \in 1..Len(kws) : NameAfter(s, p, kws[j]) # NoStr})
            IN NameAfter(s, p, kws[i])

\* CoordinatorAgent._extract_bucket_name: the patterns bucket\s+, in\s+,
\* named?\s+ in this order, on text.lower()
ExtractBucketName(text) ==
    LET s == Lower(text)
        byBucket == SearchName(s, <<words.bucket>>)
        byIn == SearchName(s, <<<<"i","n">>>>)
        byNamed == SearchName(s, <<<<"n","a","m","e","d">>, <<"n","a","m","e">>>>)
    IN IF byBucket # NoStr THEN byBucket
       ELSE IF byIn # NoStr THEN byIn
       ELSE byNamed

sizes == <<<<"m","i","c","r","o">>, <<"s","m","a","l","l">>, <<"m","e","d","i","u","m">>, <<"l","a","r","g","e">>, <<"x","l","a","r","g","e">>>>
t2_micro == <<"t","2",".","m","i","c","r","o">>

\* t[2-3]\.(micro|small|medium|large|xlarge) matched at position p of s:
\* the match, NoStr if none
TypeAt(s, p) ==
    IF p + 2 <= Len(s) /\ s[p] = "t" /\ s[p + 1] \in {"2", "3"} /\ s[p + 2] = "."
          /\ \E i \in 1..Len(sizes) : At(s, p + 3, sizes[i])
    THEN LET i == Min({j \in 1..Len(sizes) : At(s, p + 3, sizes[j])}) IN
         SubSeq(s, p, p + 2 + Len(sizes[i]))
    ELSE NoStr

\* CoordinatorAgent._extract_instance_type
ExtractInstanceType(text) ==
    LET s == Lower(text)
        starts == {p \in 1..Len(s) : TypeAt(s, p) # NoStr}
    IN IF starts = {} THEN t2_micro ELSE TypeAt(s, Min(starts))

\* CoordinatorAgent._extract_region: a region code, else the first location
\* keyword the text contains; the closing search for "in <location>" can
\* only find a location keyword, which the loop before it has returned
region_prefixes == <<<<"u","s">>, <<"e","u">>, <<"a","p">>, <<"c","a">>, <<"s","a">>>>
region_dirs == <<<<"e","a","s","t">>, <<"w","e","s","t">>, <<"s","o","u","t","h">>, <<"c","e","n","t","r","a","l">>, <<"n","o","r","t","h">>, <<"n","o","r","t","h","e","a","s","t">>, <<"s","o","u","t","h","e","a","s","t">>>>
location_keywords == <<<<"v","i","r","g","i","n","i","a">>, <<"o","h","i","o">>, <<"c","a","l","i","f","o","r","n","i","a">>, <<"o","r","e","g","o","n">>, <<"i","r","e","l","a","n","d">>, <<"l","o","n","d","o","n">>, <<"p","a","r","i","s">>, <<"f","r","a","n","k","f","u","r","t">>, <<"s","t","o","c","k","h","o","l","m">>, <<"t","o","k","y","o">>, <<"s","e","o","u","l">>, <<"o","s","a","k","a">>, <<"s","i","n","g","a","p","o","r","e">>, <<"s","y","d","n","e","y">>, <<"m","u","m","b","a","i">>, <<"c","a","n","a","d","a">>, <<"b","r","a","z","i","l">>, <<"s","a","o"," ","p","a","u","l","o">>>>

\* (us|eu|ap|ca|sa)-(east|...|southeast)-[1-3] matched at position p of s
RegionCodeAt(s, p) ==
    LET fits(i, j) ==
            LET q == p + Len(region_prefixes[i]) + 1 + Len(region_dirs[j]) IN
            /\ At(s, p, region_prefixes[i])
            /\ At(s, p + Len(region_prefixes[i]), <<"-">>)
            /\ At(s, p + Len(region_prefixes[i]) + 1, region_dirs[j])
            /\ At(s, q, <<"-">>)
            /\ q + 1 <= Len(s)
            /\ s[q + 1] \in {"1", "2", "3"}
        hits == {ij \in (1..Len(region_prefixes)) \X (1..Len(region_dirs)) : fits(ij[1], ij[2])}
    IN IF hits = {} THEN NoStr
       ELSE LET ij == CHOOSE x \in hits : TRUE IN
            SubSeq(s, p, p + Len(region_prefixes[ij[1]]) + Len(region_dirs[ij[2]]) + 2)

ExtractRegion(text) ==
    LET s == Lower(text)
        starts == {p \in 1..Len(s) : RegionCodeAt(s, p) # NoStr}
        found == {k \in 1..Len(location_keywords) : Contains(s, location_keywords[k])}
    IN IF starts # {} THEN RegionCodeAt(s, Min(starts))
       ELSE IF found # {} THEN location_keywords[Min(found)]
       ELSE NoStr

\* str.strip()
Strip(s) ==
    LET keep == {i \in 1..Len(s) : s[i] \notin WhiteSpace} IN
    IF keep = {} THEN <<>> ELSE SubSeq(s, Min(keep), Max(keep))

\* the greeting test made before the tests for operations
FallbackParseGreetsFirst(user_input) ==
    LET text == Lower(user_input)
        has(k) == Contains(text, k)
        greets(g) == Strip(text) = g \/ At(Strip(text), 1, g \o <<" ">>)
    IN IF greets(<<"h","i">>) \/ greets(<<"h","e","l","l","o">>) \/ greets(<<"h","e","y">>) \/ greets(words.help)
       THEN Intent("unknown", "greeting")
       ELSE IF (has(words.ec2) \/ has(words.instance))
                  /\ (has(words.create) \/ has(words.launch))
       THEN Intent("ec2", "create_instance")
       ELSE Intent("unknown", "help")

\* the compute block with the test for terminate and delete made before
\* the test for stop
FallbackParseDeleteFirst(user_input) ==
    LET text == Lower(user_input)
        has(k) == Contains(text, k)
    IN IF has(words.ec2) \/ has(words.instance)
       THEN IF has(words.create) \/ has(words.launch) THEN Intent("ec2", "create_instance")
            ELSE IF has(words.list) \/ has(words.show) THEN Intent("ec2", "list_instances")
            ELSE IF has(words.terminate) \/ has(words.delete)
            THEN Intent("ec2", "terminate_instance")
            ELSE IF has(words.stop) THEN Intent("ec2", "stop_instance")
            ELSE Intent("unknown", "help")
       ELSE Intent("unknown", "help")


\* PerplexityClient._fallback_parse
FallbackParse(user_input) ==
    LET text == Lower(user_input)
        has(k) == Contains(text, k)
        greets(g) == Strip(text) = g \/ At(Strip(text), 1, g \o <<" ">>)
        \* the statements after the if/elif of the operations
        rest ==
            IF (greets(<<"h","i">>) \/ greets(<<"h","e","l","l","o">>) \/ greets(<<"h","e","y">>) \/ greets(words.help))
                  /\ ~has(words.ec2) /\ ~has(words.s3)
                  /\ ~has(words.instance) /\ ~has(words.bucket)
            THEN Intent("unknown", "greeting")
            ELSE Intent("unknown", "help")
    IN IF has(words.ec2) \/ has(words.instance)
       THEN IF has(words.create) \/ has(words.launch) THEN Intent("ec2", "create_instance")
            ELSE IF has(words.list) \/ has(words.show) THEN Intent("ec2", "list_instances")
            ELSE IF has(words.stop) THEN Intent("ec2", "stop_instance")
            ELSE IF has(words.terminate) \/ has(words.delete)
            THEN Intent("ec2", "terminate_instance")
            ELSE rest
       ELSE IF has(words.s3) \/ has(words.bucket)
       THEN IF has(words.create) THEN Intent("s3", "create_bucket")
            ELSE IF has(words.list)
            THEN IF has(words.object) \/ has(words.file) THEN Intent("s3", "list_objects")
                 ELSE Intent("s3", "list_buckets")
            ELSE IF has(words.delete) THEN Intent("s3", "delete_bucket")
            ELSE rest
       ELSE rest


default_region == <<"u","s","-","e","a","s","t","-","2">>

\* EC2Agent._map_region: the region_map dictionary, key and value
region_map ==
    <<<<<<"v","i","r","g","i","n","i","a">>, <<"u","s","-","e","a","s","t","-","1">>>>,
      <<<<"n","."," ","v","i","r","g","i","n","i","a">>, <<"u","s","-","e","a","s","t","-","1">>>>,
      <<<<"n","o","r","t","h"," ","v","i","r","g","i","n","i","a">>, <<"u","s","-","e","a","s","t","-","1">>>>,
      <<<<"u","s","-","e","a","s","t","-","1">>, <<"u","s","-","e","a","s","t","-","1">>>>,
      <<<<"o","h","i","o">>, <<"u","s","-","e","a","s","t","-","2">>>>,
      <<<<"u","s","-","e","a","s","t","-","2">>, <<"u","s","-","e","a","s","t","-","2">>>>,
      <<<<"c","a","l","i","f","o","r","n","i","a">>, <<"u","s","-","w","e","s","t","-","1">>>>,
      <<<<"n","."," ","c","a","l","i","f","o","r","n","i","a">>, <<"u","s","-","w","e","s","t","-","1">>>>,
      <<<<"n","o","r","t","h","e","r","n"," ","c","a","l","i","f","o","r","n","i","a">>, <<"u","s","-","w","e","s","t","-","1">>>>,
      <<<<"u","s","-","w","e","s","t","-","1">>, <<"u","s","-","w","e","s","t","-","1">>>>,
      <<<<"o","r","e","g","o","n">>, <<"u","s","-","w","e","s","t","-","2">>>>,
      <<<<"u","s","-","w","e","s","t","-","2">>, <<"u","s","-","w","e","s","t","-","2">>>>,
      <<<<"i","r","e","l","a","n","d">>, <<"e","u","-","w","e","s","t","-","1">>>>,
      <<<<"e","u","-","w","e","s","t","-","1">>, <<"e","u","-","w","e","s","t","-","1">>>>,
      <<<<"l","o","n","d","o","n">>, <<"e","u","-","w","e","s","t","-","2">>>>,
      <<<<"e","u","-","w","e","s","t","-","2">>, <<"e","u","-","w","e","s","t","-","2">>>>,
      <<<<"p","a","r","i","s">>, <<"e","u","-","w","e","s","t","-","3">>>>,
      <<<<"e","u","-","w","e","s","t","-","3">>, <<"e","u","-","w","e","s","t","-","3">>>>,
      <<<<"f","r","a","n","k","f","u","r","t">>, <<"e","u","-","c","e","n","t","r","a","l","-","1">>>>,
      <<<<"e","u","-","c","e","n","t","r","a","l","-","1">>, <<"e","u","-","c","e","n","t","r","a","l","-","1">>>>,
      <<<<"s","t","o","c","k","h","o","l","m">>, <<"e","u","-","n","o","r","t","h","-","1">>>>,
      <<<<"e","u","-","n","o","r","t","h","-","1">>, <<"e","u","-","n","o","r","t","h","-","1">>>>,
      <<<<"t","o","k","y","o">>, <<"a","p","-","n","o","r","t","h","e","a","s","t","-","1">>>>,
      <<<<"a","p","-","n","o","r","t","h","e","a","s","t","-","1">>, <<"a","p","-","n","o","r","t","h","e","a","s","t","-","1">>>>,
      <<<<"s","e","o","u","l">>, <<"a","p","-","n","o","r","t","h","e","a","s","t","-","2">>>>,
      <<<<"a","p","-","n","o","r","t","h","e","a","s","t","-","2">>, <<"a","p","-","n","o","r","t","h","e","a","s","t","-","2">>>>,
      <<<<"o","s","a","k","a">>, <<"a","p","-","n","o","r","t","h","e","a","s","t","-","3">>>>,
      <<<<"a","p","-","n","o","r","t","h","e","a","s","t","-","3">>, <<"a","p","-","n","o","r","t","h","e","a","s","t","-","3">>>>,
      <<<<"s","i","n","g","a","p","o","r","e">>, <<"a","p","-","s","o","u","t","h","e","a","s","t","-","1">>>>,
      <<<<"a","p","-","s","o","u","t","h","e","a","s","t","-","1">>, <<"a","p","-","s","o","u","t","h","e","a","s","t","-","1">>>>,
      <<<<"s","y","d","n","e","y">>, <<"a","p","-","s","o","u","t","h","e","a","s","t","-","2">>>>,
      <<<<"a","p","-","s","o","u","t","h","e","a","s","t","-","2">>, <<"a","p","-","s","o","u","t","h","e","a","s","t","-","2">>>>,
      <<<<"m","u","m","b","a","i">>, <<"a","p","-","s","o","u","t","h","-","1">>>>,
      <<<<"a","p","-","s","o","u","t","h","-","1">>, <<"a","p","-","s","o","u","t","h","-","1">>>>,
      <<<<"c","a","n","a","d","a">>, <<"c","a","-","c","e","n","t","r","a","l","-","1">>>>,
      <<<<"c","e","n","t","r","a","l">>, <<"c","a","-","c","e","n","t","r","a","l","-","1">>>>,
      <<<<"c","a","-","c","e","n","t","r","a","l","-","1">>, <<"c","a","-","c","e","n","t","r","a","l","-","1">>>>,
      <<<<"s","a","o"," ","p","a","u","l","o">>, <<"s","a","-","e","a","s","t","-","1">>>>,
      <<<<"b","r","a","z","i","l">>, <<"s","a","-","e","a","s","t","-","1">>>>,
      <<<<"s","a","-","e","a","s","t","-","1">>, <<"s","a","-","e","a","s","t","-","1">>>>>>


\* EC2Agent._map_region
\* the lookup made on the input as it was typed, neither lowered nor stripped
MapRegionAsTyped(region_input) ==
    IF region_input = NoStr THEN default_region
    ELSE LET hits == {i \in 1..Len(region_map) : region_map[i][1] = region_input}
         IN IF hits = {} THEN default_region ELSE region_map[Min(hits)][2]


MapRegion(region_input) ==
    IF region_input = NoStr THEN default_region
    ELSE LET region_lower == Strip(Lower(region_input))
             hits == {i \in 1..Len(region_map) : region_map[i][1] = region_lower}
         IN IF hits = {} THEN default_region ELSE region_map[Min(hits)][2]

\* EC2Agent._get_region_name: the region_names dictionary
region_names ==
    <<<<<<"u","s","-","e","a","s","t","-","1">>, <<"N","."," ","V","i","r","g","i","n","i","a">>>>,
      <<<<"u","s","-","e","a","s","t","-","2">>, <<"O","h","i","o">>>>,
      <<<<"u","s","-","w","e","s","t","-","1">>, <<"N","."," ","C","a","l","i","f","o","r","n","i","a">>>>,
      <<<<"u","s","-","w","e","s","t","-","2">>, <<"O","r","e","g","o","n">>>>,
      <<<<"e","u","-","w","e","s","t","-","1">>, <<"I","r","e","l","a","n","d">>>>,
      <<<<"e","u","-","w","e","s","t","-","2">>, <<"L","o","n","d","o","n">>>>,
      <<<<"e","u","-","w","e","s","t","-","3">>, <<"P","a","r","i","s">>>>,
      <<<<"e","u","-","c","e","n","t","r","a","l","-","1">>, <<"F","r","a","n","k","f","u","r","t">>>>,
      <<<<"e","u","-","n","o","r","t","h","-","1">>, <<"S","t","o","c","k","h","o","l","m">>>>,
      <<<<"a","p","-","n","o","r","t","h","e","a","s","t","-","1">>, <<"T","o","k","y","o">>>>,
      <<<<"a","p","-","n","o","r","t","h","e","a","s","t","-","2">>, <<"S","e","o","u","l">>>>,
      <<<<"a","p","-","n","o","r","t","h","e","a","s","t","-","3">>, <<"O","s","a","k","a">>>>,
      <<<<"a","p","-","s","o","u","t","h","e","a","s","t","-","1">>, <<"S","i","n","g","a","p","o","r","e">>>>,
      <<<<"a","p","-","s","o","u","t","h","e","a","s","t","-","2">>, <<"S","y","d","n","e","y">>>>,
      <<<<"a","p","-","s","o","u","t","h","-","1">>, <<"M","u","m","b","a","i">>>>,
      <<<<"c","a","-","c","e","n","t","r","a","l","-","1">>, <<"C","a","n","a","d","a"," ","C","e","n","t","r","a","l">>>>,
      <<<<"s","a","-","e","a","s","t","-","1">>, <<"S","ã","o"," ","P","a","u","l","o">>>>>>


\* EC2Agent._get_region_name
GetRegionName(region_code) ==
    LET hits == {i \in 1..Len(region_names) : region_names[i][1] = region_code} IN
    IF hits = {} THEN region_code ELSE region_names[Min(hits)][2]

(***************************************************************************)
(* The provider-facing operations of the resource agents.  Each returns    *)
(* its result dict and the provider calls it made (calls, an observation). *)
(***************************************************************************)
Done(result, calls) == [result |-> result, calls |-> calls]

\* a formatted message: the f-string and the values it interpolates
Fmt(text, args) == [fmt |-> text, args |-> args]

\* EC2Agent.create_instance: the regions of the fallback_amis dictionary
fallback_amis ==
    <<"u","s","-","e","a","s","t","-","1">> :> "ami-0c55b159cbfafe1f0"
    @@ <<"u","s","-","e","a","s","t","-","2">> :> "ami-0c55b159cbfafe1f0"
    @@ <<"u","s","-","w","e","s","t","-","1">> :> "ami-0d1cd67c26f5fca19"
    @@ <<"u","s","-","w","e","s","t","-","2">> :> "ami-0d1cd67c26f5fca19"
    @@ <<"e","u","-","w","e","s","t","-","1">> :> "ami-0d71ea30463e0ff8d"
    @@ <<"e","u","-","w","e","s","t","-","2">> :> "ami-0d71ea30463e0ff8d"
    @@ <<"a","p","-","s","o","u","t","h","e","a","s","t","-","1">> :> "ami-0c802847a7dd848c0"

\* EC2Agent.create_instance (ami_id, key_name and tags left at None)
CreateInstance(c, instance_type, region) ==
    LET target_region == IF region # NoStr THEN MapRegion(region) ELSE default_region
        call == [op |-> "ec2.create_instance", instance_type |-> instance_type,
                 region |-> region, target_region |-> target_region]
        images == [op |-> "describe_images", region |-> target_region]
        create == [op |-> "create_instances", region |-> target_region,
                   instance_type |-> instance_type]
    IN IF ~c.ec2_images_ok /\ target_region \notin DOMAIN fallback_amis
       THEN Done([error |-> Fmt("No AMI found for region {}. Please specify ami_id parameter.",
                                <<target_region>>)],
                 <<call, images, images, images>>)
       ELSE LET lookups == IF c.ec2_images_ok THEN <<images>> ELSE <<images, images, images>> IN
            IF ~c.ec2_create_ok
            THEN Done([error |-> ProviderError], <<call>> \o lookups \o <<create>>)
            ELSE Done([success |-> TRUE, instance_id |-> "i-new",
                       instance_type |-> instance_type,
                       ami_id |-> IF c.ec2_images_ok THEN "ami-latest"
                                  ELSE fallback_amis[target_region],
                       region |-> target_region,
                       region_name |-> GetRegionName(target_region),
                       state |-> "running",
                       message |-> Fmt("EC2 instance {} created successfully in {} ({})",
                                       <<"i-new", GetRegionName(target_region), target_region>>)],
                      <<call>> \o lookups \o <<create>>)

\* EC2Agent._find_instance_region from the k-th region of the provider's
\* list on: the region found (NoStr if none) and the probes made
RECURSIVE FindFrom(_, _, _, _)
FindFrom(c, instance_id, k, probes) ==
    IF k > Len(c.regions) THEN [region |-> NoStr, probes |-> probes]
    ELSE LET region == c.regions[k]
             probed == Append(probes, [op |-> "probe", region |-> region,
                                       instance_id |-> instance_id])
         IN IF region \notin c.probe_raises
                 /\ c.located.id = instance_id /\ region \in c.located.regions
            THEN [region |-> region, probes |-> probed]
            ELSE FindFrom(c, instance_id, k + 1, probed)

\* every region probed before the answer is chosen
FindInstanceRegionScansAll(c, instance_id) ==
    LET hits == {k \in 1..Len(c.regions) :
                    /\ c.regions[k] \notin c.probe_raises
                    /\ c.located.id = instance_id /\ c.regions[k] \in c.located.regions}
    IN [region |-> IF hits = {} THEN NoStr ELSE c.regions[Min(hits)],
        probes |-> [k \in 1..Len(c.regions) |->
                       [op |-> "probe", region |-> c.regions[k],
                        instance_id |-> instance_id]]]


FindInstanceRegion(c, instance_id) == FindFrom(c, instance_id, 1, <<>>)

\* EC2Agent.stop_instance and terminate_instance, which differ in the
\* provider call (verb) and in the word of the message (past)
StopOrTerminate(c, instance_id, verb, past, ok) ==
    LET call == [op |-> "ec2." \o verb \o "_instance", instance_id |-> instance_id]
        listing == [op |-> "describe_regions"]
    IN IF ~c.regions_ok THEN Done([error |-> ProviderError], <<call, listing>>)
       ELSE LET f == FindInstanceRegion(c, instance_id)
                sofar == <<call, listing>> \o f.probes
                act == [op |-> verb \o "_instances", region |-> f.region,
                        instance_id |-> instance_id]
            IN IF f.region = NoStr
               THEN Done([error |-> Fmt("Instance {} not found in any region", <<instance_id>>)],
                         sofar)
               ELSE IF ~ok THEN Done([error |-> ProviderError], Append(sofar, act))
               ELSE Done([success |-> TRUE, instance_id |-> instance_id,
                          region |-> f.region, region_name |-> GetRegionName(f.region),
                          message |-> Fmt("Instance {} " \o past \o " successfully in {} ({})",
                                          <<instance_id, GetRegionName(f.region), f.region>>)],
                         Append(sofar, act))

StopInstance(c, instance_id) ==
    StopOrTerminate(c, instance_id, "stop", "stopped", c.ec2_stop_ok)
TerminateInstance(c, instance_id) ==
    StopOrTerminate(c, instance_id, "terminate", "terminated", c.ec2_terminate_ok)

\* S3Agent.create_bucket
CreateBucket(c, bucket_name, region) ==
    LET used == IF region = NoStr THEN c.s3_region ELSE region
        call == [op |-> "s3.create_bucket", bucket_name |-> bucket_name,
                 region |-> region, used |-> used,
                 constraint |-> IF used = us_east_1 THEN NoStr ELSE used]
    IN IF ~c.s3_create_ok THEN Done([error |-> ProviderError], <<call>>)
       ELSE Done([success |-> TRUE, bucket_name |-> bucket_name, region |-> used,
                  message |-> Fmt("S3 bucket '{}' created successfully in {}",
                                  <<bucket_name, used>>)],
                 <<call>>)

\* a failed deletion reported with success false and a message, no error
DeleteBucketFailsQuietly(c, bucket_name) ==
    LET call == [op |-> "s3.delete_bucket", bucket_name |-> bucket_name] IN
    IF ~c.s3_delete_ok THEN Done([success |-> FALSE, message |-> ProviderError], <<call>>)
    ELSE Done([success |-> TRUE, bucket_name |-> bucket_name,
               message |-> Fmt("S3 bucket '{}' deleted successfully", <<bucket_name>>)],
              <<call>>)


\* S3Agent.delete_bucket (force left at False)
DeleteBucket(c, bucket_name) ==
    LET call == [op |-> "s3.delete_bucket", bucket_name |-> bucket_name] IN
    IF ~c.s3_delete_ok THEN Done([error |-> ProviderError], <<call>>)
    ELSE Done([success |-> TRUE, bucket_name |-> bucket_name,
               message |-> Fmt("S3 bucket '{}' deleted successfully", <<bucket_name>>)],
              <<call>>)

\* a failed listing answered as an empty bucket
ListObjectsHidesFailure(c, bucket_name) ==
    Done([success |-> TRUE, bucket_name |-> bucket_name, objects |-> <<>>],
         <<[op |-> "s3.list_objects", bucket_name |-> bucket_name]>>)


\* S3Agent.list_objects
ListObjects(c, bucket_name) ==
    LET call == [op |-> "s3.list_objects", bucket_name |-> bucket_name] IN
    IF ~c.s3_objects_ok THEN Done([error |-> ProviderError], <<call>>)
    ELSE Done([success |-> TRUE, bucket_name |-> bucket_name, objects |-> <<>>], <<call>>)

(***************************************************************************)
(* The intent client.  remote says how the remote service answers the      *)
(* request of parse_intent: requests.post raises (a network error or the   *)
(* timeout), a status other than 200, a reply without the choices, a       *)
(* content without {...}, a content that json.loads rejects, or a JSON      *)
(* object (parsed).  chat says whether the request of get_smart_response    *)
(* succeeds.                                                               *)
(***************************************************************************)
Failed(kind) == [kind |-> kind, parsed |-> <<>>]
Json(parsed) == [kind |-> "json", parsed |-> parsed]
FailKinds == {"exception", "status", "nochoices", "nojson", "badjson"}
\* no request is made
NoRemote == Failed("unused")

\* a failed call answered with the default intent, whatever the text
CallApiSyncForgetsText(user_input, remote) ==
    IF remote.kind = "json"
    THEN IF Get(remote.parsed, "action", "") = "unknown"
         THEN Put(remote.parsed, "action", "greeting")
         ELSE remote.parsed
    ELSE Intent("unknown", "help")

\* FastPerplexityClient._call_api_sync
CallApiSync(user_input, remote) ==
    IF remote.kind = "json"
    THEN IF Get(remote.parsed, "action", "") = "unknown"
         THEN Put(remote.parsed, "action", "greeting")
         ELSE remote.parsed
    ELSE FastFallback(user_input)

\* FastPerplexityClient.parse_intent: the intent and the number of requests
\* made to the remote service
ParseIntent(user_input, key, remote) ==
    IF ~key THEN [intent |-> FastFallback(user_input), requests |-> 0]
    ELSE [intent |-> CallApiSync(user_input, remote), requests |-> 1]

FallbackGreeting == "Hi there! I'm your AWS Multi-Agent Assistant!"
FallbackHelp == "Here's what I can do for you!"
LlmReply == "(the content of the remote reply)"

\* FastPerplexityClient._get_fallback_response
GetFallbackResponse(user_input) ==
    LET text == Lower(user_input) IN
    IF \E i \in 1..4 : Contains(text, greetings[i]) THEN FallbackGreeting ELSE FallbackHelp

\* FastPerplexityClient.get_smart_response
GetSmartResponse(user_input, key, chat) ==
    IF ~key THEN [text |-> GetFallbackResponse(user_input), requests |-> 0]
    ELSE IF chat = "ok" THEN [text |-> LlmReply, requests |-> 1]
    ELSE [text |-> GetFallbackResponse(user_input), requests |-> 1]

(***************************************************************************)
(* The coordinator.  A handler returns the world it leaves, how it ends    *)
(* (out), the provider operations it invoked (calls) and the requests it   *)
(* made to the remote service.                                             *)
(***************************************************************************)
Handled(w, out, calls, requests) ==
    [w |-> w, out |-> out, calls |-> calls, requests |-> requests]

\* bool(v) of a value that is None or a dict
Truthy(v) == ~IsNone(v) /\ DOMAIN v # {}

\* a or b  on strings
Or(a, b) == IF a # NoStr THEN a ELSE b

TipS3 == "You have {} S3 bucket(s). You can use them with this instance!"
TipEC2 == "You have {} EC2 instance(s). You can access this bucket from them!"

\* a tip for every answer of the peer, with a count or without
WithTipAlways(result, info, tip) ==
    IF Truthy(info)
    THEN Put(result, "tip", Fmt(tip, <<Get(info, "count", 0)>>))
    ELSE result

\* the end of both create branches: result['tip'] = ... if info and
\* info.get('count', 0) > 0
WithTip(result, info, tip) ==
    IF Truthy(info) /\ Get(info, "count", 0) > 0
    THEN Put(result, "tip", Fmt(tip, <<info.count>>))
    ELSE result

\* the stop and terminate branches without the test  if instance_id:
HandleEC2ActionUnchecked(w, intent, user_input, c, d) ==
    LET Acted(r) == Handled(w, Ret(r.result), r.calls, 0)
    IN Acted(StopInstance(c, Or(Get(Get(intent, "parameters", <<>>), "instance_id", NoStr),
                                ExtractInstanceId(user_input))))


\* CoordinatorAgent._handle_ec2_action.  The local operators take the result
\* of a call the handler makes and carry on from there.
HandleEC2Action(w, intent, user_input, c, d) ==
    IF ~Has(intent, "action") THEN Handled(w, Raise("KeyError"), <<>>, 0)
    ELSE
    LET action == intent.action
        params == Get(intent, "parameters", <<>>)
        Created(s3_info, r) ==
            Handled(s3_info.w, Ret(WithTip(r.result, s3_info.out.value, TipS3)), r.calls, 0)
        Queried(s3_info) ==
            IF s3_info.out.raised THEN Handled(s3_info.w, s3_info.out, <<>>, 0)
            ELSE Created(s3_info, CreateInstance(c, Get(params, "instance_type", t2_micro),
                                                 Get(params, "region", NoStr)))
        Sent(r) == Handled(r.w, r.out, <<>>, 0)
        Acted(r) == Handled(w, Ret(r.result), r.calls, 0)
        On(instance_id) ==
            IF instance_id = NoStr
            THEN Handled(w, Ret([error |-> "Please provide instance ID"]), <<>>, 0)
            ELSE IF action = "stop_instance" THEN Acted(StopInstance(c, instance_id))
            ELSE Acted(TerminateInstance(c, instance_id))
    IN
    IF action = "create_instance" THEN
        IF IsNone(params) THEN Handled(w, Raise("AttributeError"), <<>>, 0)
        ELSE Queried(QueryAgent(w, Coordinator, S3, queries.buckets, c, d))
    ELSE IF action = "list_instances" THEN
        Sent(SendMessage(w, Coordinator, EC2, Dict([action |-> "list_instances"]),
                         "request", c, d))
    ELSE IF action \in {"stop_instance", "terminate_instance"} THEN
        IF IsNone(params) THEN Handled(w, Raise("AttributeError"), <<>>, 0)
        ELSE On(Or(Get(params, "instance_id", NoStr), ExtractInstanceId(user_input)))
    ELSE Handled(w, Ret([error |-> "Unknown EC2 action: " \o action]), <<>>, 0)

\* CoordinatorAgent._handle_s3_action
HandleS3Action(w, intent, user_input, c, d) ==
    IF ~Has(intent, "action") THEN Handled(w, Raise("KeyError"), <<>>, 0)
    ELSE
    LET action == intent.action
        params == Get(intent, "parameters", <<>>)
        Created(ec2_info, r) ==
            Handled(ec2_info.w, Ret(WithTip(r.result, ec2_info.out.value, TipEC2)), r.calls, 0)
        Queried(ec2_info) ==
            IF ec2_info.out.raised THEN Handled(ec2_info.w, ec2_info.out, <<>>, 0)
            ELSE Created(ec2_info, CreateBucket(c, Get(params, "bucket_name", NoStr),
                                                Get(params, "region", NoStr)))
        Sent(r) == Handled(r.w, r.out, <<>>, 0)
        Acted(r) == Handled(w, Ret(r.result), r.calls, 0)
        On(bucket_name) ==
            IF bucket_name = NoStr
            THEN Handled(w, Ret([error |-> "Please provide bucket name"]), <<>>, 0)
            ELSE IF action = "list_objects" THEN Acted(ListObjects(c, bucket_name))
            ELSE Acted(DeleteBucket(c, bucket_name))
    IN
    IF action = "create_bucket" THEN
        IF IsNone(params) THEN Handled(w, Raise("AttributeError"), <<>>, 0)
        ELSE IF Get(params, "bucket_name", NoStr) = NoStr
        THEN Handled(w, Ret([error |-> "Please provide a bucket name. Example: 'create s3 bucket my-bucket-name'"]),
                     <<>>, 0)
        ELSE Queried(QueryAgent(w, Coordinator, EC2, queries.instances, c, d))
    ELSE IF action = "list_buckets" THEN
        Sent(SendMessage(w, Coordinator, S3, Dict([action |-> "list_buckets"]),
                         "request", c, d))
    ELSE IF action \in {"list_objects", "delete_bucket"} THEN
        IF IsNone(params) THEN Handled(w, Raise("AttributeError"), <<>>, 0)
        ELSE On(Or(Get(params, "bucket_name", NoStr), ExtractBucketName(user_input)))
    ELSE Handled(w, Ret([error |-> "Unknown S3 action: " \o action]), <<>>, 0)

\* every conversational answer returned as a bare message
HandleUnknownPlain(w, user_input, intent, key, chat) ==
    LET Reply(response) == Handled(w, Ret([message |-> response.text]), <<>>,
                                   response.requests)
    IN Reply(GetSmartResponse(user_input, key, chat))


\* CoordinatorAgent._handle_unknown
HandleUnknown(w, user_input, intent, key, chat) ==
    LET action == Get(intent, "action", "")
        Reply(response) ==
            IF action \in {"greeting", "help"}
            THEN Handled(w, Ret([message |-> response.text, greeting |-> TRUE]), <<>>,
                         response.requests)
            ELSE Handled(w, Ret([message |-> response.text]), <<>>, response.requests)
    IN Reply(GetSmartResponse(user_input, key, chat))

NotSure == "I'm not sure how to help with that. Try 'help' for available commands."

\* the dispatch of process_request on the intent
Dispatch(w, intent, user_input, key, chat, c, d) ==
    IF ~Has(intent, "service") THEN Handled(w, Raise("KeyError"), <<>>, 0)
    ELSE IF intent.service = "ec2" THEN HandleEC2Action(w, intent, user_input, c, d)
    ELSE IF intent.service = "s3" THEN HandleS3Action(w, intent, user_input, c, d)
    ELSE IF intent.service = "unknown" THEN HandleUnknown(w, user_input, intent, key, chat)
    ELSE Handled(w, Ret([message |-> NotSure]), <<>>, 0)

\* CoordinatorAgent.process_request
ProcessRequest(w, user_input, key, remote, chat, c, d) ==
    LET Answer(p, h) ==
            [w |-> h.w, out |-> h.out, calls |-> h.calls, intent |-> p.intent,
             parse_requests |-> p.requests, requests |-> p.requests + h.requests]
        Route(p) == Answer(p, Dispatch(w, p.intent, user_input, key, chat, c, d))
    IN Route(ParseIntent(user_input, key, remote))

(***************************************************************************)
(* Requests to the coordinator.  The texts are commands of the help text   *)
(* of chat_interface.py; the remote replies are paired with a text they    *)
(* may answer, some well-formed (with explicit parameters that differ from *)
(* what the text holds) and some not.                                      *)
(***************************************************************************)
Texts == {texts.create_instance, texts.create_bucket, texts.stop, texts.hello, texts.list,
          texts.delete_bucket, texts.stop_no_id, texts.delete_no_name, texts.create_no_name,
          texts.terminate_unknown}

\* replies of the remote intent service, parsed
replies ==
    [create_instance |->
         [service |-> "ec2", action |-> "create_instance",
          parameters |-> [instance_type |-> <<"t","3",".","l","a","r","g","e">>,
                          region |-> <<"t","o","k","y","o">>]],
     create_bucket |->
         [service |-> "s3", action |-> "create_bucket",
          parameters |-> [bucket_name |-> <<"x","-","b","u","c","k","e","t">>,
                          region |-> us_west_2]],
     stop |->
         [service |-> "ec2", action |-> "stop_instance",
          parameters |-> [instance_id |-> id_other]],
     delete_bucket |->
         [service |-> "s3", action |-> "delete_bucket",
          parameters |-> [bucket_name |-> <<"x","-","b","u","c","k","e","t">>]],
     greeting |-> [service |-> "unknown", action |-> "greeting", parameters |-> <<>>],
     unknown_action |-> [service |-> "ec2", action |-> "unknown", parameters |-> <<>>],
     no_action |-> [service |-> "ec2"],
     empty |-> <<>>,
     null_parameters |->
         [service |-> "ec2", action |-> "create_instance", parameters |-> None],
     other_service |-> [service |-> "rds", action |-> "list", parameters |-> <<>>],
     list_objects |-> [service |-> "s3", action |-> "list_objects", parameters |-> <<>>],
     list_objects_in |->
         [service |-> "s3", action |-> "list_objects",
          parameters |-> [bucket_name |-> <<"x","-","b","u","c","k","e","t">>]],
     reboot |-> [service |-> "ec2", action |-> "reboot_instance", parameters |-> <<>>],
     chat |-> [service |-> "unknown", action |-> "chat", parameters |-> <<>>]]

WellFormedReplies ==
    {<<texts.create_instance, Json(replies.create_instance)>>,
     <<texts.create_bucket, Json(replies.create_bucket)>>,
     <<texts.stop, Json(replies.stop)>>,
     <<texts.delete_bucket, Json(replies.delete_bucket)>>,
     <<texts.hello, Json(replies.greeting)>>,
     <<texts.list_objects, Json(replies.list_objects)>>,
     <<texts.list_objects, Json(replies.list_objects_in)>>}
\* replies of the documented format that name no handler
UnhandledReplies ==
    {<<texts.list, Json(replies.reboot)>>,
     <<texts.hello, Json(replies.chat)>>}
MalformedReplies ==
    {<<texts.list, Json(replies.unknown_action)>>,
     <<texts.list, Json(replies.no_action)>>,
     <<texts.hello, Json(replies.empty)>>,
     <<texts.create_instance, Json(replies.null_parameters)>>,
     <<texts.list, Json(replies.other_service)>>}
FailedReplies ==
    {<<t, Failed(k)>> : t \in {texts.create_instance, texts.hello}, k \in FailKinds}
        \cup {<<texts.stop, Failed("exception")>>, <<texts.create_bucket, Failed("status")>>,
              <<texts.delete_bucket, Failed("nojson")>>}

\* what the coordinator is asked when it holds an API key
KeyedInputs ==
    WellFormedReplies \cup UnhandledReplies \cup MalformedReplies \cup FailedReplies

\* the outcomes of the request of get_smart_response, when one is made
ChatOutcomes(key, intent) ==
    IF key /\ Get(intent, "service", "") = "unknown" THEN {"ok", "fail"} ELSE {"unused"}

\* the clock is read only when a Message is constructed: the readings of a
\* request that sends one, and none for a request that sends none
ClockReadings(user_input, remote) ==
    IF ProcessRequest(World, user_input, apiKey, remote, "unused", cloud, <<0, 0>>).w.history
           # history
    THEN Ticks(2)
    ELSE {<<0, 0>>}

\* a call of CoordinatorAgent.process_request
DoProcessRequest(user_input, remote) ==
    /\ ops < MaxRequests
    /\ \E d \in ClockReadings(user_input, remote) :
       \E chat \in ChatOutcomes(apiKey, ParseIntent(user_input, apiKey, remote).intent) :
       \E r \in {ProcessRequest(World, user_input, apiKey, remote, chat, cloud, d)} :
          /\ Commit(r.w)
          /\ last' = [op |-> "process_request", text |-> user_input, remote |-> remote,
                      chat |-> chat, key |-> apiKey, cloud |-> cloud, intent |-> r.intent,
                      out |-> r.out, calls |-> r.calls, handled |-> r.w.handled,
                      parse_requests |-> r.parse_requests, requests |-> r.requests]
    /\ pre' = Snapshot
    /\ ops' = ops + 1
    /\ UNCHANGED <<handler, stack>>
    /\ UNCHANGED <<registry, cloud, apiKey>>

\* CoordinatorAgent.__init__, with or without PERPLEXITY_API_KEY
InitCoord ==
    /\ InitAgents
    /\ cloud \in Clouds
    /\ apiKey \in BOOLEAN

NextCoord ==
    \/ apiKey /\ \E i \in KeyedInputs : DoProcessRequest(i[1], i[2])
    \/ ~apiKey /\ \E t \in Texts : DoProcessRequest(t, NoRemote)

SpecCoord == InitCoord /\ [][NextCoord]_vars

(***************************************************************************)
(* Properties of process_request, stated on the observation last of the   *)
(* latest request and on the state pre before it.                          *)
(***************************************************************************)
IsRequest == last.op = "process_request"
Before == [history |-> pre.history, queue |-> pre.queue, now |-> pre.now, handled |-> <<>>]
Service == Get(last.intent, "service", "")
Action == Get(last.intent, "action", "")
Parameters == Get(last.intent, "parameters", <<>>)
Explicit(name) == IF IsNone(Parameters) THEN NoStr ELSE Get(Parameters, name, NoStr)

\* the request reaches the create call of its handler
CreatesInstance ==
    IsRequest /\ Service = "ec2" /\ Action = "create_instance" /\ ~IsNone(Parameters)
CreatesBucket ==
    /\ IsRequest /\ Service = "s3" /\ Action = "create_bucket" /\ ~IsNone(Parameters)
    /\ Explicit("bucket_name") # NoStr
\* how many resources the peer of the creating agent holds
PeerCount ==
    IF CreatesInstance THEN Len(last.cloud.s3_buckets) ELSE Len(last.cloud.ec2_instances)
\* the create calls among the provider operations of the request
CreateCalls ==
    SelectSeq(last.calls, LAMBDA k : k.op \in {"ec2.create_instance", "s3.create_bucket"})

\* C6: whatever the remote intent service does, intent resolution returns
\* an intent with a service among ec2, s3 and unknown, an action and a
\* parameters mapping, and process_request does not raise.
C6_IntentAlwaysWellFormed ==
    IsRequest =>
        /\ Service \in {"ec2", "s3", "unknown"}
        /\ Has(last.intent, "action")
        /\ Has(last.intent, "parameters") /\ ~IsNone(last.intent.parameters)
        /\ ~last.out.raised

\* C7: without an API key, or when the call of the remote intent service
\* fails, the coordinator dispatches on the fallback classifier's result
\* for the same text, the request completes, and its response carries no
\* error but the one the handler of that intent produces; without an API
\* key no request is made to the remote service.
C7_UnavailableFallsBack ==
    (IsRequest /\ (~last.key \/ last.remote.kind \in FailKinds)) =>
        /\ last.intent = FastFallback(last.text)
        /\ ~last.out.raised
        /\ Get(last.out.value, "error", NoStr) =
              Get(Dispatch(Before, FastFallback(last.text), last.text, last.key,
                           last.chat, last.cloud, <<0, 0>>).out.value, "error", NoStr)
        /\ (last.key => last.parse_requests = 1)
        /\ (~last.key => last.requests = 0)

\* the remote service answered without JSON and the create command of the
\* text was still carried out
C7_Witness ==
    /\ IsRequest /\ last.key /\ last.remote.kind = "nojson"
    /\ last.text = texts.create_instance
    /\ Action = "create_instance"
    /\ Get(last.out.value, "success", FALSE)

\* C8: a create action queries the other resource agent, and its result
\* carries the tip exactly when the create succeeded and that agent holds
\* a positive number of resources.
C8_TipIffPeerHoldsResources ==
    (CreatesInstance \/ CreatesBucket) =>
        /\ Len(last.handled) = 1
        /\ last.handled[1].type = "query"
        /\ last.handled[1].agent = (IF CreatesInstance THEN S3 ELSE EC2)
        /\ ~last.out.raised
        /\ Has(last.out.value, "tip") <=>
              (Get(last.out.value, "success", FALSE) /\ PeerCount > 0)

Preferred(name, extracted) == Or(Explicit(name), extracted)

\* C10: a handler uses the explicit value of the intent for a parameter
\* when there is one, else the value extracted from the text, and the
\* default only when there is neither.
C10_ParameterPrecedence ==
    (IsRequest /\ ~last.out.raised /\ last.calls # <<>>) =>
        LET call == last.calls[1] IN
        /\ call.op = "ec2.create_instance" =>
              /\ call.instance_type =
                    Preferred("instance_type", ExtractInstanceType(last.text))
              /\ call.region = Preferred("region", ExtractRegion(last.text))
        /\ call.op \in {"ec2.stop_instance", "ec2.terminate_instance"} =>
              call.instance_id = Preferred("instance_id", ExtractInstanceId(last.text))
        /\ call.op \in {"s3.create_bucket", "s3.delete_bucket", "s3.list_objects"} =>
              call.bucket_name = Preferred("bucket_name", ExtractBucketName(last.text))

\* C11: when the instance id of a stop or terminate, or the bucket name of
\* a create_bucket, list_objects or delete_bucket, is in neither the intent
\* parameters nor the text, process_request returns a response with an
\* error key, and the request issues no provider operation and sends no
\* A2A message.
C11_MissingParameterIsAnError ==
    LET \* the parameter the action of the request cannot do without
        required ==
            IF Service = "ec2" /\ Action \in {"stop_instance", "terminate_instance"}
            THEN "instance_id"
            ELSE IF Service = "s3"
                    /\ Action \in {"create_bucket", "list_objects", "delete_bucket"}
            THEN "bucket_name"
            ELSE ""
        \* what the extractor of that parameter finds in the text
        inText == IF required = "instance_id" THEN ExtractInstanceId(last.text)
                  ELSE ExtractBucketName(last.text)
    IN
    (/\ IsRequest /\ required # "" /\ ~IsNone(Parameters)
     /\ Explicit(required) = NoStr
     /\ inText = NoStr) =>
        /\ ~last.out.raised
        /\ Has(last.out.value, "error")
        /\ last.calls = <<>>
        /\ last.handled = <<>>
        /\ history = pre.history /\ queue = pre.queue

\* the remote service asked for the objects of a bucket that neither it
\* nor the text names
C11_Witness ==
    /\ IsRequest /\ last.key /\ Service = "s3" /\ Action = "list_objects"
    /\ Explicit("bucket_name") = NoStr
    /\ last.text = texts.list_objects /\ ExtractBucketName(last.text) = NoStr
    /\ last.out.value = [error |-> "Please provide bucket name"]

\* C12: for an intent whose service and action have no handler (an
\* unlisted action under ec2 or s3, an unlisted action under unknown, or a
\* service other than ec2, s3 and unknown), process_request returns
\* {error: "Unknown <service> action: <action>"}, the service written as
\* the handlers write it, and invokes no provider operation.
C12_UnhandledIsUnknownAction ==
    LET \* the actions the branches of the handlers name, by service
        handlers ==
            [ec2 |-> {"create_instance", "list_instances", "stop_instance",
                      "terminate_instance"},
             s3 |-> {"create_bucket", "list_buckets", "list_objects", "delete_bucket"},
             unknown |-> {"greeting", "help"}]
        label == IF Service = "ec2" THEN "EC2"
                 ELSE IF Service = "s3" THEN "S3" ELSE Service
    IN
    (/\ IsRequest /\ Has(last.intent, "service") /\ Has(last.intent, "action")
     /\ (Service \notin DOMAIN handlers \/ Action \notin handlers[Service])) =>
           /\ ~last.out.raised
           /\ last.out.value = [error |-> "Unknown " \o label \o " action: " \o Action]
           /\ last.calls = <<>>

\* C13: every value process_request returns is a mapping with success =
\* true, an error key or a message key, and none has both success = true
\* and an error key; a request whose provider operations all fail returns
\* a mapping with the error key, so a caller that tests for that key
\* takes the failure for a failure.
C13_ResponseShape ==
    (IsRequest /\ ~last.out.raised) =>
        LET v == last.out.value
            ok == Get(v, "success", FALSE) = TRUE
        IN /\ ~IsNone(v)
           /\ ok \/ Has(v, "error") \/ Has(v, "message")
           /\ ~(ok /\ Has(v, "error"))
           /\ (last.cloud = CloudDown /\ (last.calls # <<>> \/ last.handled # <<>>)) =>
                 Has(v, "error")

\* a deletion the provider refuses, answered with the error key alone
C13_Witness ==
    /\ IsRequest /\ last.cloud = CloudDown
    /\ Len(last.calls) = 1 /\ last.calls[1].op = "s3.delete_bucket"
    /\ last.out.value = [error |-> ProviderError]

(***************************************************************************)
(* EC2Agent.stop_instance and terminate_instance called on an agent whose  *)
(* provider lists any of three regions in any order, each region's probe   *)
(* of id_known raising, answering empty or answering with the instance.    *)
(***************************************************************************)
Regions == {us_east_1, us_east_2, us_west_2}
RegionLists ==
    {s \in UNION {[1..n -> Regions] : n \in 0..Cardinality(Regions)} :
        \A i, j \in DOMAIN s : s[i] = s[j] => i = j}
LocatorClouds ==
    {[CloudUp EXCEPT !.regions = s,
                     !.probe_raises = {r \in Regions : o[r] = "raises"},
                     !.located = [id |-> id_known, regions |-> {r \in Regions : o[r] = "found"}],
                     !.ec2_stop_ok = ok, !.ec2_terminate_ok = ok] :
        s \in RegionLists, o \in [Regions -> {"raises", "empty", "found"}], ok \in BOOLEAN}

\* a call of stop_instance or terminate_instance; found is what its call of
\* _find_instance_region returns
DoStopInstance(instance_id) ==
    /\ ops < MaxOps
    /\ last' = [op |-> "stop_instance", instance_id |-> instance_id, cloud |-> cloud,
                found |-> FindInstanceRegion(cloud, instance_id),
                done |-> StopInstance(cloud, instance_id)]
    /\ pre' = Snapshot /\ ops' = ops + 1
    /\ UNCHANGED <<handler, stack>>
    /\ UNCHANGED <<registry, history, queue, now, cloud, apiKey>>
DoTerminateInstance(instance_id) ==
    /\ ops < MaxOps
    /\ last' = [op |-> "terminate_instance", instance_id |-> instance_id, cloud |-> cloud,
                found |-> FindInstanceRegion(cloud, instance_id),
                done |-> TerminateInstance(cloud, instance_id)]
    /\ pre' = Snapshot /\ ops' = ops + 1
    /\ UNCHANGED <<handler, stack>>
    /\ UNCHANGED <<registry, history, queue, now, cloud, apiKey>>

InitLocate ==
    /\ InitAgents
    /\ cloud \in LocatorClouds
    /\ apiKey = FALSE

NextLocate ==
    \/ \E i \in {id_known, id_other} : DoStopInstance(i)
    \/ \E i \in {id_known, id_other} : DoTerminateInstance(i)

SpecLocate == InitLocate /\ [][NextLocate]_vars

\* C14: the region locator returns the first region of the provider's list
\* whose probe answers with the instance and probes no region after it; a
\* probe that raises or answers empty makes it go on to the next region;
\* it returns None, having probed every region, when no probe answers with
\* the instance.
C14_FirstOwningRegion ==
    last.op \in {"stop_instance", "terminate_instance"} =>
        LET \* the positions of the provider's list whose probe answers with
            \* the instance
            Owners ==
                {k \in 1..Len(last.cloud.regions) :
                    /\ last.cloud.regions[k] \notin last.cloud.probe_raises
                    /\ last.cloud.located.id = last.instance_id
                    /\ last.cloud.regions[k] \in last.cloud.located.regions}
            \* the regions probed, in the order of the probes
            Probed == [i \in 1..Len(last.found.probes) |-> last.found.probes[i].region]
        IN IF Owners = {}
           THEN last.found.region = NoStr /\ Probed = last.cloud.regions
           ELSE /\ last.found.region = last.cloud.regions[Min(Owners)]
                /\ Probed = SubSeq(last.cloud.regions, 1, Min(Owners))

\* the first probe raises, the second and the third region both answer
\* with the instance: the second is returned and the third is not probed
C14_Witness ==
    /\ last.op = "stop_instance" /\ last.instance_id = id_known
    /\ last.cloud.regions = <<us_west_2, us_east_1, us_east_2>>
    /\ us_west_2 \in last.cloud.probe_raises
    /\ last.cloud.located.regions = {us_east_1, us_east_2}
    /\ last.found.region = us_east_1
    /\ Len(last.found.probes) = 2

\* C15: for the input "terminate instance <id>" or "stop instance <id>"
\* with no instance id in the intent, when the provider lists its regions
\* and none owns <id>, process_request returns {error: "Instance <id> not
\* found in any region"} and issues no stop or terminate call; when a
\* region owns <id>, one stop or terminate call is issued, after every
\* probe of the locator and to the region the locator returned.
C15_UnknownInstanceIsNotFound ==
    LET prefix == IF At(last.text, 1, <<"s","t","o","p"," ","i","n","s","t","a","n","c","e"," ">>) THEN <<"s","t","o","p"," ","i","n","s","t","a","n","c","e"," ">>
                  ELSE <<"t","e","r","m","i","n","a","t","e"," ","i","n","s","t","a","n","c","e"," ">>
        id == SubSeq(last.text, Len(prefix) + 1, Len(last.text))
        found == FindInstanceRegion(last.cloud, id).region
        acts == SelectSeq(last.calls,
                          LAMBDA k : k.op \in {"stop_instances", "terminate_instances"})
    IN
    (/\ IsRequest /\ ~last.out.raised
     /\ Action \in {"stop_instance", "terminate_instance"}
     /\ Explicit("instance_id") = NoStr
     /\ At(last.text, 1, prefix) /\ id # NoStr
     /\ last.cloud.regions_ok) =>
        IF found = NoStr
        THEN /\ acts = <<>>
             \* the regions were searched, and the answer says so
             /\ last.calls # <<>>
             /\ last.out.value =
                   [error |-> Fmt("Instance {} not found in any region", <<id>>)]
        ELSE /\ Len(acts) = 1
             /\ last.calls[Len(last.calls)] = acts[1]
             /\ acts[1].region = found /\ acts[1].instance_id = id

\* C16: for the input "create s3 bucket my-bucket", with the intent the
\* fallback classifier's and a provider that accepts the creation,
\* process_request invokes the create operation of the S3 agent once, with
\* the bucket name my-bucket, no region given and the default region of
\* the agent's client used, and returns a success result with bucket name
\* my-bucket.
C16_CreateBucketFromText ==
    (/\ IsRequest /\ last.text = texts.create_bucket
     /\ (~last.key \/ last.remote.kind \in FailKinds)
     /\ last.cloud.s3_create_ok) =>
        /\ ~last.out.raised
        /\ Len(CreateCalls) = 1 /\ Len(last.calls) = 1
        /\ CreateCalls[1].op = "s3.create_bucket"
        /\ CreateCalls[1].bucket_name = <<"m","y","-","b","u","c","k","e","t">>
        /\ CreateCalls[1].region = NoStr
        /\ CreateCalls[1].used = last.cloud.s3_region
        /\ Get(last.out.value, "success", FALSE) = TRUE
        /\ Get(last.out.value, "bucket_name", NoStr) = <<"m","y","-","b","u","c","k","e","t">>

(***************************************************************************)
(* The fallback classifiers called on a text: _fast_fallback, which the    *)
(* coordinator's client uses, and _fallback_parse of PerplexityClient.     *)
(* The text is drawn at the start from the texts of at most MaxWords words *)
(* of the vocabulary; last keeps the result of the latest call and, in     *)
(* prior, the call before it.                                              *)
(***************************************************************************)
MaxWords == 3

vocabulary ==
    <<<<"h","i">>, <<"t","h","i","s">>, <<"c","r","e","a","t","e">>, <<"l","a","u","n","c","h">>, <<"l","i","s","t">>, <<"d","e","l","e","t","e">>,
      <<"s","t","o","p">>, <<"t","e","r","m","i","n","a","t","e">>,
      <<"I","n","s","t","a","n","c","e">>, <<"b","u","c","k","e","t">>, <<"o","b","j","e","c","t","s">>>>

\* the words of a text, separated by one blank
RECURSIVE Join(_)
Join(ws) ==
    IF ws = <<>> THEN <<>>
    ELSE IF Len(ws) = 1 THEN ws[1]
    ELSE ws[1] \o <<" ">> \o Join(Tail(ws))

ClassifierTexts ==
    {Join(ws) : ws \in UNION {[1..n -> Range(vocabulary)] : n \in 0..MaxWords}}

\* a call of FastPerplexityClient._fast_fallback on the text
DoFastFallback ==
    /\ ops < MaxOps
    /\ last' = [op |-> "fast_fallback", text |-> last.text,
                intent |-> FastFallback(last.text),
                prior |-> [op |-> last.op, intent |-> Get(last, "intent", None)]]
    /\ pre' = Snapshot /\ ops' = ops + 1
    /\ UNCHANGED <<handler, stack>>
    /\ UNCHANGED <<registry, history, queue, now, cloud, apiKey>>

\* a call of PerplexityClient._fallback_parse on the text
DoFallbackParse ==
    /\ ops < MaxOps
    /\ last' = [op |-> "fallback_parse", text |-> last.text,
                intent |-> FallbackParse(last.text),
                prior |-> [op |-> last.op, intent |-> Get(last, "intent", None)]]
    /\ pre' = Snapshot /\ ops' = ops + 1
    /\ UNCHANGED <<handler, stack>>
    /\ UNCHANGED <<registry, history, queue, now, cloud, apiKey>>

InitClassify ==
    /\ registry = InitialRegistry
    /\ history = [a \in Agents |-> <<>>]
    /\ queue = [a \in Agents |-> <<>>]
    /\ now = 0
    /\ ops = 0
    /\ handler = [a \in Agents |-> "class"]
    /\ stack = <<>>
    /\ last \in {[op |-> "text", text |-> t] : t \in ClassifierTexts}
    /\ pre = Snapshot
    /\ cloud = CloudUp
    /\ apiKey = FALSE

NextClassify ==
    \/ DoFastFallback
    \/ DoFallbackParse

SpecClassify == InitClassify /\ [][NextClassify]_vars

\* C17: each fallback classifier returns, for every text, an intent whose
\* service is ec2, s3 or unknown, whose action is one of that service's
\* actions and whose parameters are a mapping; the call changes nothing in
\* the agents, and a call that follows a call of the same classifier on the
\* same text returns the same intent.
C17_ClassifierPureAndTotal ==
    last.op \in {"fast_fallback", "fallback_parse"} =>
        LET actions ==
                [ec2 |-> {"create_instance", "list_instances", "stop_instance",
                          "terminate_instance"},
                 s3 |-> {"create_bucket", "list_buckets", "list_objects", "delete_bucket"},
                 unknown |-> {"greeting", "help"}]
        IN /\ ~IsNone(last.intent)
           /\ DOMAIN last.intent = {"service", "action", "parameters"}
           /\ last.intent.service \in DOMAIN actions
           /\ last.intent.action \in actions[last.intent.service]
           /\ ~IsNone(last.intent.parameters)
           /\ [registry |-> registry, history |-> history, queue |-> queue, now |-> now] = pre
           /\ last.prior.op = last.op => last.intent = last.prior.intent

\* the same text classified twice by _fallback_parse, a greeting both times
C17_Witness ==
    /\ last.op = "fallback_parse" /\ last.prior.op = "fallback_parse"
    /\ last.text = <<"h","i"," ","t","h","i","s">>
    /\ last.intent = Intent("unknown", "greeting")
    /\ last.prior.intent = last.intent

\* C18: for every text that contains 'ec2' or 'instance' together with
\* 'create' or 'launch', each classifier returns {ec2, create_instance},
\* and not {unknown, greeting}, also when the text begins with or contains
\* a greeting token.
C18_DomainOutranksGreeting ==
    LET text == Lower(last.text)
        has(k) == Contains(text, k)
    IN
    (/\ last.op \in {"fast_fallback", "fallback_parse"}
     /\ (has(words.ec2) \/ has(words.instance))
     /\ (has(words.create) \/ has(words.launch))) =>
        last.intent = Intent("ec2", "create_instance")

\* a text that begins with a greeting token and asks for an instance
C18_Witness ==
    /\ last.op = "fallback_parse"
    /\ last.text = <<"h","i"," ","l","a","u","n","c","h"," ","I","n","s","t","a","n","c","e">>
    /\ last.intent = Intent("ec2", "create_instance")

\* C19: for every text without 'ec2' and 'instance' that contains 's3' or
\* 'bucket', each classifier chooses the S3 action by the priority create,
\* list, delete, and for list returns list_objects when the text contains
\* 'object' or 'file' and list_buckets otherwise.
C19_StorageActionPriority ==
    LET text == Lower(last.text)
        has(k) == Contains(text, k)
    IN
    (/\ last.op \in {"fast_fallback", "fallback_parse"}
     /\ ~has(words.ec2) /\ ~has(words.instance)
     /\ (has(words.s3) \/ has(words.bucket))) =>
        /\ has(words.create) => last.intent = Intent("s3", "create_bucket")
        /\ (~has(words.create) /\ has(words.list)) =>
              last.intent = Intent("s3", IF has(words.object) \/ has(words.file)
                                         THEN "list_objects" ELSE "list_buckets")
        /\ (~has(words.create) /\ ~has(words.list) /\ has(words.delete)) =>
              last.intent = Intent("s3", "delete_bucket")

\* C20: when no rule for an operation has matched, a classifier returns
\* {unknown, greeting} exactly when the text, stripped, equals one of the
\* classifier's greeting tokens or begins with one followed by a blank, and
\* contains none of 'ec2', 's3', 'instance' and 'bucket'; any other such
\* text, one with a greeting token inside a word or past its beginning
\* included, is classified {unknown, help}.
C20_GreetingOnlyAtStart ==
    LET text == Lower(last.text)
        has(k) == Contains(text, k)
        tokens == IF last.op = "fast_fallback" THEN Range(greetings)
                  ELSE {<<"h","i">>, <<"h","e","l","l","o">>, <<"h","e","y">>, words.help}
        greets == \E g \in tokens : Strip(text) = g \/ At(Strip(text), 1, g \o <<" ">>)
        domain == has(words.ec2) \/ has(words.s3) \/ has(words.instance) \/ has(words.bucket)
    IN
    (last.op \in {"fast_fallback", "fallback_parse"} /\ last.intent.service = "unknown") =>
        last.intent.action = (IF greets /\ ~domain THEN "greeting" ELSE "help")

(***************************************************************************)
(* EC2Agent._map_region and the region choice of create_instance, called   *)
(* on a region input drawn at the start: every key of region_map as it is, *)
(* in capitals and between blanks, and inputs that are no key.             *)
(***************************************************************************)
RegionInputs ==
    LET Upper(s) ==
            [i \in 1..Len(s) |->
                IF \E j \in 1..Len(LowerCase) : LowerCase[j] = s[i]
                THEN UpperCase[CHOOSE j \in 1..Len(LowerCase) : LowerCase[j] = s[i]]
                ELSE s[i]]
        keys == {region_map[i][1] : i \in 1..Len(region_map)}
    IN keys \cup {Upper(k) : k \in keys}
          \cup {<<" ">> \o k \o <<" ", " ">> : k \in keys}
          \cup {<<" ">> \o Upper(k) \o <<" ", " ">> : k \in keys}
          \cup {NoStr, <<" "," ">>, <<"m","a","r","s">>, <<"u","s","-","e","a","s","t","-","9">>, <<"v","i","r","g","i","n","i","a"," ","b","e","a","c","h">>, <<"e","a","s","t">>}

\* a call of _map_region on the input
DoMapRegion ==
    /\ ops < MaxOps
    /\ last' = [op |-> "map_region", text |-> last.text, region |-> MapRegion(last.text)]
    /\ pre' = Snapshot /\ ops' = ops + 1
    /\ UNCHANGED <<handler, stack>>
    /\ UNCHANGED <<registry, history, queue, now, cloud, apiKey>>

\* a call of create_instance with the input as region; region is the
\* target_region it computes
DoCreateInstance ==
    /\ ops < MaxOps
    /\ last' = [op |-> "create_instance", text |-> last.text,
                region |-> CreateInstance(cloud, t2_micro, last.text).calls[1].target_region]
    /\ pre' = Snapshot /\ ops' = ops + 1
    /\ UNCHANGED <<handler, stack>>
    /\ UNCHANGED <<registry, history, queue, now, cloud, apiKey>>

InitRegion ==
    /\ registry = InitialRegistry
    /\ history = [a \in Agents |-> <<>>]
    /\ queue = [a \in Agents |-> <<>>]
    /\ now = 0
    /\ ops = 0
    /\ handler = [a \in Agents |-> "class"]
    /\ stack = <<>>
    /\ last \in {[op |-> "text", text |-> t] : t \in RegionInputs}
    /\ pre = Snapshot
    /\ cloud \in {CloudUp, CloudDown}
    /\ apiKey = FALSE

NextRegion ==
    \/ DoMapRegion
    \/ DoCreateInstance

SpecRegion == InitRegion /\ [][NextRegion]_vars

\* C21: the region mapping returns us-east-2 for an absent, empty or
\* unrecognized input; an input that is a key of the mapping, in any letter
\* case and between any blanks, is mapped to that key's region code; and
\* that code is itself mapped to the same code.
C21_RegionMappingTotal ==
    last.op \in {"map_region", "create_instance"} =>
        LET key == Strip(Lower(last.text))
            known == {i \in 1..Len(region_map) : region_map[i][1] = key}
        IN /\ (last.text = NoStr \/ known = {}) => last.region = <<"u","s","-","e","a","s","t","-","2">>
           /\ \A i \in known :
                 /\ last.region = region_map[i][2]
                 /\ MapRegion(region_map[i][2]) = region_map[i][2]
                 /\ \E j \in 1..Len(region_map) : region_map[j][1] = region_map[i][2]

\* a friendly name in capitals between blanks, mapped to its region code
C21_Witness ==
    /\ last.op = "map_region"
    /\ last.text = <<" ","T","O","K","Y","O"," "," ">>
    /\ last.region = <<"a","p","-","n","o","r","t","h","e","a","s","t","-","1">>

\* C22: for the input "hello", its intent resolved as {unknown, greeting},
\* process_request returns a mapping with a message and greeting = true
\* and without an error key, invokes no provider operation and sends no
\* A2A message: no agent's history or queue changes.
C22_HelloIsGreeted ==
    (IsRequest /\ last.text = texts.hello /\ last.intent = Intent("unknown", "greeting")) =>
        /\ ~last.out.raised
        /\ Has(last.out.value, "message")
        /\ Get(last.out.value, "greeting", FALSE) = TRUE
        /\ ~Has(last.out.value, "error")
        /\ last.calls = <<>>
        /\ last.handled = <<>>
        /\ history = pre.history /\ queue = pre.queue

\* "hello" greeted without an API key, by the fallback classifier and the
\* fallback response
C22_Witness ==
    /\ IsRequest /\ last.text = texts.hello /\ ~last.key
    /\ last.intent = Intent("unknown", "greeting")
    /\ DOMAIN last.out.value = {"message", "greeting"}
    /\ last.requests = 0

\* C23: for a list-instances command the coordinator sends exactly one A2A
\* request {action: list_instances} to the EC2 agent and returns that
\* agent's result as it is, {success: true, instances: [2 items]} with a
\* provider that holds two instances; the coordinator's history, the EC2
\* agent's history and the EC2 agent's queue each grow by one entry, and
\* nothing changes in the S3 agent.
C23_ListGoesThroughA2A ==
    (IsRequest /\ ~last.out.raised /\ Service = "ec2" /\ Action = "list_instances") =>
        /\ Len(last.handled) = 1
        /\ last.handled[1].agent = EC2
        /\ last.handled[1].type = "request"
        /\ last.handled[1].content = Dict([action |-> "list_instances"])
        /\ last.out.value = EC2ListInstances(last.cloud)
        /\ last.cloud = CloudUp =>
              /\ last.out.value.success = TRUE
              /\ DOMAIN last.out.value = {"success", "instances"}
              /\ Len(last.out.value.instances) = 2
        /\ Len(history[Coordinator]) = Len(pre.history[Coordinator]) + 1
        /\ Len(history[EC2]) = Len(pre.history[EC2]) + 1
        /\ Len(queue[EC2]) = Len(pre.queue[EC2]) + 1
        /\ Last(history[Coordinator]) = Last(queue[EC2])
        /\ Last(history[EC2]) = Last(queue[EC2])
        /\ history[S3] = pre.history[S3] /\ queue[S3] = pre.queue[S3]
        /\ queue[Coordinator] = pre.queue[Coordinator]
        /\ last.calls = <<>>

\* "list instances" answered with the two instances of the account, as the
\* second request of the coordinator
C23_Witness ==
    /\ IsRequest /\ last.text = texts.list /\ Action = "list_instances"
    /\ last.cloud = CloudUp
    /\ last.out.value = [success |-> TRUE, instances |-> <<inst_1, inst_2>>]
    /\ Len(queue[EC2]) = Len(pre.queue[EC2]) + 1
    /\ ops = 2

C25_ComputeActionPriority ==
    LET text == Lower(last.text)
        has(k) == Contains(text, k)
        rank1 == has(words.create) \/ has(words.launch)
        rank2 == has(words.list) \/ has(words.show)
        rank3 == has(words.stop)
        rank4 == has(words.terminate) \/ has(words.delete)
        is(action) == last.intent = [service |-> "ec2", action |-> action,
                                     parameters |-> <<>>]
    IN
    (/\ last.op \in {"fast_fallback", "fallback_parse"}
     /\ has(words.ec2) \/ has(words.instance)) =>
        /\ rank1 => is("create_instance")
        /\ (~rank1 /\ rank2) => is("list_instances")
        /\ (~rank1 /\ ~rank2 /\ rank3) => is("stop_instance")
        /\ (~rank1 /\ ~rank2 /\ ~rank3 /\ rank4) => is("terminate_instance")

\* 'stop delete Instance' classified as stop_instance by the classifier
\* the coordinator uses
C25_Witness ==
    /\ last.op = "fast_fallback"
    /\ last.text = Join(<<words.stop, words.delete, <<"I","n","s","t","a","n","c","e">>>>)
    /\ last.intent.action = "stop_instance"

(***************************************************************************)
(* A call chain followed statement by statement.  Each frame of stack is   *)
(* one send_message call that has not returned; pc is the statement it is  *)
(* at: "send" (line 47), "deliver" (line 58, the sender's record written), *)
(* "handle" (line 68, the receiver's records written), "wait" (inside the  *)
(* handler, in a send of its own), "return" (its result in out).           *)
(***************************************************************************)
MaxDepth == 3

Frame(self, receiver, content, msg_type) ==
    [self |-> self, receiver |-> receiver, content |-> content, type |-> msg_type,
     pc |-> "send", m |-> None, out |-> Ret(None)]

Top == stack[Len(stack)]
SetTop(f) == [stack EXCEPT ![Len(stack)] = f]

\* an append that puts the record first
RecordFirst(log, self, m) == [log EXCEPT ![self] = <<m>> \o @]

\* list.append on the log of self
Record(log, self, m) == [log EXCEPT ![self] = Append(@, m)]

\* a forwarding handler that passes a query on only when the agent has no
\* call of its own in progress
ForwardsOnce(self, m) ==
    /\ handler[self] # "class"
    /\ m.type = "query"
    /\ \A k \in 1..Len(stack) : stack[k].self # self

\* whether handle_message of self answers m by sending it on
Forwards(self, m) == handler[self] # "class" /\ m.type = "query"

\* a client calls send_message
Call(self, receiver, content, msg_type) ==
    /\ stack = <<>>
    /\ ops < MaxOps
    /\ stack' = <<Frame(self, receiver, content, msg_type)>>
    /\ last' = [op |-> "call", self |-> self, receiver |-> receiver,
                content |-> content, type |-> msg_type, cloud |-> cloud]
    /\ pre' = Snapshot
    /\ ops' = ops + 1
    /\ UNCHANGED <<registry, history, queue, now, cloud, apiKey, handler>>

\* send_message, lines 47-52: the lookup, the Message, the sender's record
SendStep ==
    /\ stack # <<>> /\ Top.pc = "send"
    /\ IF Unregistered(Top.self, Top.receiver)
       THEN /\ stack' = SetTop([Top EXCEPT !.pc = "return", !.out = Ret(None)])
            /\ UNCHANGED <<history, now>>
       ELSE \E d \in Ticks(2) :
               LET t1 == now + d[1]
                   t2 == t1 + d[2]
                   m == NewMessage(Top.self, Top.receiver, Top.content, Top.type, t1, t2)
               IN /\ t2 <= MaxClock
                  /\ history' = Record(history, Top.self, m)
                  /\ now' = t2
                  /\ stack' = SetTop([Top EXCEPT !.pc = "deliver", !.m = m])
    /\ UNCHANGED <<registry, queue, cloud, apiKey, ops, last, pre, handler>>

\* line 58 and receive_message, lines 62-63: the receiver's two records
ReceiveStep ==
    /\ stack # <<>> /\ Top.pc = "deliver"
    /\ queue' = Record(queue, Top.receiver, Top.m)
    /\ history' = Record(history, Top.receiver, Top.m)
    /\ stack' = SetTop([Top EXCEPT !.pc = "handle"])
    /\ UNCHANGED <<registry, now, cloud, apiKey, ops, last, pre, handler>>

\* line 68: the receiver's handle_message runs; a forwarding handler calls
\* send_message of its agent, the handlers of the repository return
HandleStep ==
    /\ stack # <<>> /\ Top.pc = "handle"
    /\ IF Forwards(Top.receiver, Top.m)
       THEN /\ Len(stack) < MaxDepth
            /\ stack' = Append(SetTop([Top EXCEPT !.pc = "wait"]),
                               Frame(Top.receiver, handler[Top.receiver],
                                     Top.m.content, "query"))
       ELSE stack' = SetTop([Top EXCEPT !.pc = "return",
                                        !.out = HandleMessage(Top.receiver, Top.m, cloud)])
    /\ UNCHANGED <<registry, history, queue, now, cloud, apiKey, ops, last, pre, handler>>

\* a send_message returns: to the handler that made it, which returns its
\* result in turn, or to the client
ReturnStep ==
    /\ stack # <<>> /\ Top.pc = "return"
    /\ IF Len(stack) = 1
       THEN /\ stack' = <<>>
            /\ last' = [op |-> "send", self |-> Top.self, receiver |-> Top.receiver,
                        content |-> Top.content, type |-> Top.type, cloud |-> cloud,
                        out |-> Top.out]
       ELSE /\ stack' = [k \in 1..(Len(stack) - 1) |->
                            IF k = Len(stack) - 1
                            THEN [stack[k] EXCEPT !.pc = "return", !.out = Top.out]
                            ELSE stack[k]]
            /\ UNCHANGED last
    /\ UNCHANGED <<registry, history, queue, now, cloud, apiKey, ops, pre, handler>>

\* the classes of the repository, and agents whose handlers forward
Handlers ==
    LET class == [a \in Agents |-> "class"] IN
    {class,
     [class EXCEPT ![EC2] = S3, ![S3] = EC2],
     [class EXCEPT ![EC2] = Coordinator],
     [class EXCEPT ![EC2] = S3],
     [class EXCEPT ![S3] = Aux]}

ChainInputs ==
    {<<Coordinator, EC2, Dict([query |-> queries.instance_count]), "query">>,
     <<Coordinator, S3, Dict([query |-> queries.bucket_count]), "query">>,
     <<Coordinator, EC2, Dict([action |-> "list_instances"]), "request">>,
     <<EC2, S3, Str(texts.ping), "query">>,
     <<Aux, Coordinator, Str(texts.ping), "query">>}

InitChain ==
    /\ registry = InitialRegistry
    /\ history = [a \in Agents |-> <<>>]
    /\ queue = [a \in Agents |-> <<>>]
    /\ now = 0
    /\ ops = 0
    /\ last = [op |-> "init"]
    /\ pre = Snapshot
    /\ cloud \in {CloudUp, CloudDown}
    /\ apiKey = FALSE
    /\ handler \in Handlers
    /\ stack = <<>>

NextChain ==
    \/ \E i \in ChainInputs : Call(i[1], i[2], i[3], i[4])
    \/ SendStep
    \/ ReceiveStep
    \/ HandleStep
    \/ ReturnStep

SpecChain == InitChain /\ [][NextChain]_vars

\* C26: while a call chain runs, what it has written to each history is
\* what its calls in progress have written, in call-stack order: for each
\* call from the outermost inwards the sender's record and then, once
\* receive_message has run, the receiver's record, which is in the
\* receiver's inbound log and history when its handler starts and so before
\* every record of a send the handler makes; a message the handler sends
\* back to the original sender follows that sender's own send record.
C26_CallStackOrder ==
    LET received(f) == f.pc \in {"handle", "wait"} \/ (f.pc = "return" /\ ~IsNone(f.m))
        sent(f) == received(f) \/ f.pc = "deliver"
        \* the records of the calls in progress, in call-stack order
        events == [i \in 1..(2 * Len(stack)) |->
                      LET f == stack[(i + 1) \div 2] IN
                      IF i % 2 = 1
                      THEN [agent |-> f.self, written |-> sent(f), m |-> f.m, inbound |-> FALSE]
                      ELSE [agent |-> f.receiver, written |-> received(f), m |-> f.m,
                            inbound |-> TRUE]]
        records(s) == [i \in 1..Len(s) |-> s[i].m]
        inHistory(a) == records(SelectSeq(events, LAMBDA e : e.written /\ e.agent = a))
        inQueue(a) == records(SelectSeq(events, LAMBDA e : e.written /\ e.inbound /\ e.agent = a))
        isPrefix(s, t) == Len(s) <= Len(t) /\ SubSeq(t, 1, Len(s)) = s
        descending == \A k \in 1..Len(stack) : stack[k].pc # "return"
    IN
    stack # <<>> =>
        \A a \in Agents :
            /\ isPrefix(pre.history[a] \o inHistory(a), history[a])
            /\ isPrefix(pre.queue[a] \o inQueue(a), queue[a])
            /\ descending => /\ history[a] = pre.history[a] \o inHistory(a)
                             /\ queue[a] = pre.queue[a] \o inQueue(a)

\* the compute agent's handler has sent the coordinator's query back to the
\* coordinator, whose handler is about to run: the coordinator's history
\* holds its own send record and then the nested message
C26_Witness ==
    /\ Len(stack) = 2 /\ ops = 1
    /\ stack[1].self = Coordinator /\ stack[1].pc = "wait"
    /\ stack[2].receiver = Coordinator /\ stack[2].pc = "handle"
    /\ history[Coordinator] = <<stack[1].m, stack[2].m>>
    /\ history[EC2] = <<stack[1].m, stack[2].m>>
    /\ queue[Coordinator] = <<stack[2].m>>

\* C29: with two mutually registered agents whose handlers each forward a
\* received query to the other, a query sent to either of them never
\* returns: no call of the chain reaches its return, every call but the
\* innermost waits inside a handler, each further hop is taken wherever the
\* chain stands (nothing in send_message or receive_message refuses it), and
\* the two histories together hold at least 2n - 1 records once n calls of
\* the chain wait in a handler.
C29_CycleNeverReturns ==
    LET cycle == /\ handler[EC2] = S3 /\ handler[S3] = EC2
                 /\ S3 \in Range(registry[EC2]) /\ EC2 \in Range(registry[S3])
        enters(f) == /\ f.type = "query" /\ f.receiver \in {EC2, S3}
                     /\ f.receiver \in Range(registry[f.self])
        written(a) == Len(history[a]) - Len(pre.history[a])
    IN
    cycle =>
        /\ last.op = "send" => ~enters(last)
        /\ (stack # <<>> /\ enters(stack[1])) =>
              /\ \A k \in 1..Len(stack) : stack[k].pc # "return"
              /\ \A k \in 1..(Len(stack) - 1) :
                    /\ stack[k].pc = "wait"
                    /\ stack[k + 1].self = stack[k].receiver
                    /\ stack[k + 1].receiver = stack[k].self \/ k = 1
              /\ written(EC2) + written(S3) >= 2 * (Len(stack) - 1) - 1
              /\ (Top.pc = "handle" /\ Len(stack) < MaxDepth) => ENABLED HandleStep
              /\ Top.pc \in {"send", "deliver"} => ENABLED (SendStep \/ ReceiveStep)

\* the cycle at the deepest nesting the model follows, no call returned
C29_Witness ==
    /\ handler[EC2] = S3 /\ handler[S3] = EC2
    /\ Len(stack) = MaxDepth /\ Top.pc = "handle"
    /\ stack[1].self = Coordinator /\ stack[1].receiver = EC2
    /\ \A k \in 1..(Len(stack) - 1) : stack[k].pc = "wait"
    /\ Len(history[EC2]) >= MaxDepth /\ Len(history[S3]) >= MaxDepth - 1

(***************************************************************************)
(* The assembled network under every operation of the messaging layer and  *)
(* process_request, in any order.                                          *)
(***************************************************************************)
InitNetwork ==
    /\ InitAgents
    /\ cloud \in {CloudUp, CloudDown}
    /\ apiKey = FALSE

NextNetwork ==
    \/ \E i \in RegisterInputs : RegisterAgent(i[1], i[2])
    \/ \E i \in {<<Coordinator, EC2, Dict([action |-> "list_instances"]), "request">>,
                 <<S3, Nobody, Dict([action |-> "list_buckets"]), "request">>,
                 <<Aux, Coordinator, Str(texts.ping), "response">>,
                 <<Coordinator, Coordinator, Str(texts.ping), "notification">>} :
          Send(i[1], i[2], i[3], i[4])
    \/ \E i \in QueryInputs : Query(i[1], i[2], i[3])
    \/ DoBroadcast(Aux, Dict([action |-> "list_buckets"]), "request")
    \/ \E t \in {texts.list, texts.create_bucket, texts.create_instance, texts.hello} :
          DoProcessRequest(t, NoRemote)

SpecNetwork == InitNetwork /\ [][NextNetwork]_vars

\* C27: under register, send, broadcast, query and process_request in any
\* order, each step leaves every agent's conversation history and inbound
\* log as it was or extends it at the end (the sequence before the step is
\* a prefix of the sequence after it, so nothing is removed, reordered or
\* rewritten), and before and after the step no inbound log is longer than
\* the history of the same agent.
C27_LogsOnlyGrow ==
    [][LET isPrefix(s, t) == Len(s) <= Len(t) /\ SubSeq(t, 1, Len(s)) = s IN
       \A a \in Agents :
           /\ isPrefix(history[a], history'[a])
           /\ isPrefix(queue[a], queue'[a])
           /\ Len(queue[a]) <= Len(history[a])
           /\ Len(queue'[a]) <= Len(history'[a])]_vars

\* a process_request that followed an earlier delivery: the coordinator's
\* history and the inbound log of a resource agent both grew by it
C27_Witness ==
    /\ ops = 2 /\ last.op = "process_request"
    /\ \E a \in {EC2, S3} :
          /\ Len(pre.queue[a]) > 0 /\ Len(queue[a]) > Len(pre.queue[a])
          /\ SubSeq(queue[a], 1, Len(pre.queue[a])) = pre.queue[a]
    /\ Len(pre.history[Coordinator]) > 0
    /\ Len(history[Coordinator]) > Len(pre.history[Coordinator])
    /\ SubSeq(history[Coordinator], 1, Len(pre.history[Coordinator])) = pre.history[Coordinator]

\* C28: register_agent(B) on A leaves A's registry with the keys it had and
\* B, the earlier keys in their order; the registry of every other agent,
\* B's included, and every history, inbound log and the clock are as before.
\* Where B did not hold A before, a send from A to B is then delivered and
\* a send from B to A is a routing failure that changes nothing.
C28_RegistrationIsOneWay ==
    last.op = "register" =>
        LET A == last.self
            B == last.agent
            ping == Str(texts.ping)
            AtoB == SendMessage(World, A, B, ping, "request", cloud, <<0, 0>>)
            BtoA == SendMessage(World, B, A, ping, "request", cloud, <<0, 0>>)
        IN
        /\ Range(registry[A]) = Range(pre.registry[A]) \cup {B}
        /\ SubSeq(registry[A], 1, Len(pre.registry[A])) = pre.registry[A]
        /\ Len(registry[A]) = Len(pre.registry[A]) + (IF B \in Range(pre.registry[A]) THEN 0 ELSE 1)
        /\ \A a \in Agents \ {A} : registry[a] = pre.registry[a]
        /\ history = pre.history /\ queue = pre.queue /\ now = pre.now
        /\ Last(AtoB.w.queue[B]).sender = A
        /\ Len(AtoB.w.queue[B]) = Len(queue[B]) + 1
        /\ (A # B /\ A \notin Range(pre.registry[B])) =>
              /\ BtoA.out = Ret(None)
              /\ BtoA.w = World

\* the unregistered agent registers the coordinator, as the only operation so
\* far: it holds the coordinator and the coordinator does not hold it
C28_Witness ==
    /\ last.op = "register" /\ ops = 1
    /\ last.self = Aux /\ last.agent = Coordinator
    /\ registry[Aux] = <<Coordinator>>
    /\ Aux \notin Range(registry[Coordinator])
    /\ registry[Coordinator] = InitialRegistry[Coordinator]

\* C30: in the assembled network, under any sequence of process_request
\* calls, only the coordinator sends: every record of every history is a
\* message from the coordinator to a resource agent, held by the coordinator
\* and by that receiver alone; each exchange is one message handled once by
\* its receiver, which writes nothing further (nesting depth one); every
\* request ends with a result or an exception; and the coordinator's
\* inbound log is empty.
C30_ExchangesAreFlat ==
    LET grown(a) == Len(history[a]) - Len(pre.history[a]) IN
    /\ queue[Coordinator] = <<>>
    /\ queue[Aux] = <<>> /\ history[Aux] = <<>>
    /\ \A a \in {EC2, S3} :
          /\ queue[a] = history[a]
          /\ \A i \in 1..Len(history[a]) :
                /\ history[a][i].sender = Coordinator
                /\ history[a][i].receiver = a
    /\ \A i \in 1..Len(history[Coordinator]) :
          /\ history[Coordinator][i].sender = Coordinator
          /\ history[Coordinator][i].receiver \in {EC2, S3}
    /\ Len(history[Coordinator]) = Len(history[EC2]) + Len(history[S3])
    /\ last.op = "process_request" =>
          /\ last.out.raised \in BOOLEAN
          /\ Len(last.handled) <= 1
          /\ grown(Coordinator) = Len(last.handled)
          /\ \A i \in 1..Len(last.handled) :
                LET h == last.handled[i] IN
                /\ h.agent \in {EC2, S3}
                /\ grown(h.agent) = 1
                /\ Last(history[h.agent]).id = h.id
                /\ Last(history[Coordinator]).id = h.id

\* two requests, each with one exchange: the coordinator holds two sent
\* records and has received nothing
C30_Witness ==
    /\ last.op = "process_request" /\ ops = 2
    /\ Len(last.handled) = 1
    /\ Len(history[Coordinator]) = 2
    /\ Len(queue[EC2]) = 1 /\ Len(queue[S3]) = 1
    /\ queue[Coordinator] = <<>>

====
